---------------------------- MODULE Spec2Model ----------------------------
(***************************************************************************)
(* Model of the openMSX serialization archives (serialize.hh):            *)
(*   - the binary backend MemOutputArchive / MemInputArchive,              *)
(*   - the identity tables of OutputArchiveBase2 (idMap, polyIdMap,        *)
(*     lastId) and the saver front-end calls that use them,                *)
(*   - the load-side tables of InputArchiveBase2 (idMap, sharedPtrMap),    *)
(*   - a save pass through the front-end calls of OutputArchiveBase and    *)
(*     the load pass through those of InputArchiveBase that mirrors it,    *)
(*   - the section calls of the other direction,                           *)
(*   - tags and version attributes on the Mem and Xml archives,            *)
(*   - serializePolymorphic and the registry of subtypes.                  *)
(* Each part has its own variables and its own specification; the other    *)
(* parts' variables stay unchanged in it.                                  *)
(***************************************************************************)
EXTENDS Integers, Sequences, FiniteSets, TLC

(***************************************************************************)
(* Bounds of the model.                                                    *)
(***************************************************************************)
\* number of save-side calls of one binary save pass
MaxCalls == 5
\* number of front-end calls of one save pass of the identity tables
MaxIdCalls == 4
\* number of addPointer and getPointer calls of one load pass
MaxPtrCalls == 4
\* number of steps of one load pass that touch shared-ownership wrappers
MaxSharedCalls == 4
\* number of front-end calls of a save pass that a load pass mirrors
MaxPassCalls == 3
\* number of save-side calls of a pass with section calls of the other direction
MaxDirCalls == 3
\* number of serialize calls of a client pass with tags and versions
MaxTagCalls == 3
\* number of save-side calls of a pass whose stream is cut short
MaxTruncCalls == 3
MaxOmitCalls == 4
\* number of front-end calls of a pass with polymorphic values
MaxPolyCalls == 3
\* number of outermost front-end calls whose tags are logged
MaxBracketCalls == 3

(***************************************************************************)
(* Program constants.                                                      *)
(***************************************************************************)
\* sizeof(unsigned)
SizeofUnsigned == 4
\* sizeof(char)
SizeofChar == 1

VARIABLES
    \* ---- binary backend ----
    endian,        \* byte order of the build ("little" or "big")
    buffer,        \* MemOutputArchive::buffer, the bytes written so far
    openSections,  \* MemOutputArchive::openSections
    calls,         \* the save-side calls made so far (the client's sequence)
    startPos,      \* write position before each save-side call
    mpc,           \* "save", "load", "done" or "abort"
    inPos,         \* read position of MemInputArchive::buffer
    loadIdx,       \* index in calls of the next call the loader mirrors
    loaded,        \* what the loader read, per mirrored call
    skipped        \* indexes of the sections the loader skipped

memVars == <<endian, buffer, openSections, calls, startPos, mpc, inPos,
             loadIdx, loaded, skipped>>

VARIABLES
    \* ---- save side: OutputArchiveBase2 ----
    idMap,         \* OutputArchiveBase2::idMap: <<address, type>> -> ID
    polyIdMap,     \* OutputArchiveBase2::polyIdMap: address -> ID
    lastId,        \* OutputArchiveBase2::lastId
    genLog,        \* the generateId calls made so far and what they returned
    out,           \* what the front-end calls put into the stream
    idRet,         \* the last getId call and what it returned
    idCalls        \* number of calls made in this pass

idVars == <<idMap, polyIdMap, lastId, genLog, out, idRet, idCalls>>

VARIABLES
    \* ---- load side: InputArchiveBase2, pointer table ----
    ptrIdMap,      \* InputArchiveBase2::idMap: ID -> reconstructed object
    addLog,        \* the addPointer calls made so far
    ptrRet,        \* the last getPointer call and what it returned
    ptrCalls       \* number of calls made in this pass

ptrVars == <<ptrIdMap, addLog, ptrRet, ptrCalls>>

VARIABLES
    \* ---- load side: InputArchiveBase2, shared ownership ----
    sp,            \* the shared_ptr wrappers of the client: object and owner group
    alive,         \* which wrappers are within their lifetime
    sharedPtrMap,  \* InputArchiveBase2::sharedPtrMap: object -> address of a wrapper
    nextGroup,     \* owner groups (reference counts) created so far
    lastReset,     \* per wrapper: the object of its last resetSharedPtr call
    shCalls        \* number of steps made in this pass

shVars == <<sp, alive, sharedPtrMap, nextGroup, lastReset, shCalls>>

VARIABLES
    \* ---- a save pass with identities and the load pass that mirrors it ----
    ipc,           \* "save", "load", "done", "failed" or "misread"
    pcalls,        \* the front-end calls of the client, in order
    stream,        \* the stream the load pass is given
    rdPos,         \* number of entries of stream the loader has consumed
    ldIdx,         \* index in pcalls of the next call the loader mirrors
    ldLog,         \* the addPointer and getPointer calls of the load pass
    tampered       \* the stream is not the one the save pass wrote

passVars == <<ipc, pcalls, stream, rdPos, ldIdx, ldLog, tampered>>

VARIABLES
    \* ---- section calls on an archive of the other direction ----
    misuse         \* the last such call ("" when there was none)

dirVars == <<misuse>>

VARIABLES
    \* ---- one client pass on either backend: tags, versions, values ----
    backend,       \* "Mem" or "Xml": the concrete archive of the pass
    wver,          \* version of the client type in the build that saves
    rver,          \* version of the client type in the build that loads
    xdoc,          \* the stream: tag, attribute and value entries in order
    xcalls,        \* the serialize calls of the client, in order
    xstart,        \* position in xdoc of the first entry of each call
    xpc,           \* "save", "load", "done", or how the load pass failed
    xpos,          \* XmlInputArchive::pos / read position of the stream
    xldIdx,        \* index in xcalls of the next call the loader mirrors
    xloaded,       \* what the loader handed to the client, per call
    swapped        \* 0, or the index of the call whose entries were swapped
                   \* with those of the next call

tagVars == <<backend, wver, rver, xdoc, xcalls, xstart, xpc, xpos, xldIdx,
             xloaded, swapped>>

VARIABLES
    \* ---- polymorphic values and pointers: registry and discriminators ----
    saveReg,       \* the subtypes registered in the build that saves
    loadReg,       \* the subtypes registered in the build that loads
    polyCalls,     \* the front-end calls of the client, in order
    polyOut,       \* the stream: discriminator and field entries in order
    polyStart,     \* position in polyOut of the first entry of each call
    polyPc,        \* "save", "load", "done", or how the load pass failed
    polyPos,       \* number of entries of polyOut the loader has consumed
    polyIdx,       \* index in polyCalls of the next call the loader mirrors
    polyLoaded     \* the instances the load pass produced, per call

polyVars == <<saveReg, loadReg, polyCalls, polyOut, polyStart, polyPc, polyPos,
              polyIdx, polyLoaded>>

\* the beginTag / endTag calls an archive receives -------------------------
VARIABLES
    logDir,         \* "save": an output archive; "load": an input archive
    tagLog,         \* the beginTag, endTag and content events, in order
    logCalls        \* the outermost front-end calls, each with where its
                    \* events start in tagLog

brVars == <<logDir, tagLog, logCalls>>

vars == <<memVars, idVars, ptrVars, shVars, passVars, dirVars, tagVars,
         polyVars, brVars>>

(***************************************************************************)
(* Raw bytes of primitive values.                                          *)
(***************************************************************************)
RECURSIVE littleBytes(_, _)
littleBytes(v, n) ==
    IF n = 0 THEN <<>> ELSE <<v % 256>> \o littleBytes(v \div 256, n - 1)

Reverse(s) == [i \in 1 .. Len(s) |-> s[Len(s) + 1 - i]]

\* the in-memory bytes of an integer of n bytes ("put(&t, sizeof(t))")
rawBytes(v, n) ==
    IF endian = "little" THEN littleBytes(v, n) ELSE Reverse(littleBytes(v, n))

RECURSIVE littleValue(_)
littleValue(b) ==
    IF b = <<>> THEN 0 ELSE b[1] + 256 * littleValue(Tail(b))

\* the integer whose in-memory bytes are b ("get(&t, sizeof(t))")
rawValue(b) ==
    IF endian = "little" THEN littleValue(b) ELSE littleValue(Reverse(b))

(***************************************************************************)
(* OutputBuffer and InputBuffer (MemBuffer.hh).                            *)
(***************************************************************************)
\* OutputBuffer::getPosition
getPosition(buf) == Len(buf)

\* OutputBuffer::insert: append len bytes
insert(buf, data) == buf \o data

\* OutputBuffer::insertAt: overwrite the bytes at pos .. pos+len-1 (0-based pos)
insertAt(buf, pos, data) ==
    [i \in 1 .. Len(buf) |->
        IF i > pos /\ i <= pos + Len(data) THEN data[i - pos] ELSE buf[i]]

\* InputBuffer::read: the len bytes at the cursor
read(buf, pos, len) == SubSeq(buf, pos + 1, pos + len)

(***************************************************************************)
(* MemOutputArchive.                                                       *)
(***************************************************************************)
\* a put that writes in front of what the buffer holds
put_front(buf, data) == IF Len(data) # 0 THEN data \o buf ELSE buf

\* MemOutputArchive::put
put(buf, data) == IF Len(data) # 0 THEN insert(buf, data) ELSE buf

\* a save that writes every primitive as if it were an unsigned
save_asUnsigned(buf, v, size) == put(buf, rawBytes(v, SizeofUnsigned))

\* MemOutputArchive::save<T>: the raw bytes of t
save(buf, v, size) == put(buf, rawBytes(v, size))

\* MemOutputArchive::save(const std::string&): length prefix, then the characters
saveString(buf, s) == put(save(buf, Len(s), SizeofUnsigned), s)

\* a serialize_blob that writes the length in front of the bytes
serialize_blob_prefixed(buf, data) ==
    put(save(buf, Len(data), SizeofUnsigned), data)

\* MemOutputArchive::serialize_blob
serialize_blob(buf, data) == put(buf, data)

\* a beginSection that records the position in front of the placeholder
beginSectionPos_before(buf) == getPosition(buf)

\* MemOutputArchive::beginSection: the buffer and the recorded position
beginSectionBuffer(buf) == save(buf, 0, SizeofUnsigned)
beginSectionPos(buf) == getPosition(beginSectionBuffer(buf))

\* an endSection that measures from the placeholder instead of from its end
endSectionSkip_fromPlaceholder(buf, beginPos) ==
    getPosition(buf) - (beginPos - SizeofUnsigned)

\* MemOutputArchive::endSection: the length that is back-patched.  Positions
\* stay far below 2^32 here and endPos >= beginPos, so the unsigned
\* subtraction is the plain difference.
endSectionSkip(buf, beginPos) == getPosition(buf) - beginPos

\* an endSection that inserts the length in front of the section content
endSectionBuffer_inserting(buf, beginPos) ==
    SubSeq(buf, 1, beginPos - SizeofUnsigned)
       \o rawBytes(endSectionSkip(buf, beginPos), SizeofUnsigned)
       \o SubSeq(buf, beginPos - SizeofUnsigned + 1, Len(buf))

\* MemOutputArchive::endSection: the buffer after the back-patch
endSectionBuffer(buf, beginPos) ==
    insertAt(buf, beginPos - SizeofUnsigned,
             rawBytes(endSectionSkip(buf, beginPos), SizeofUnsigned))

\* an endSection that takes the oldest open section
back_front(v) == v[1]

\* a pop_back that leaves the vector as it is
pop_back_nothing(v) == v

\* std::vector::back and pop_back, as endSection uses them on openSections
back(v) == v[Len(v)]
pop_back(v) == SubSeq(v, 1, Len(v) - 1)

\* the values a client saves
CharValues == {200}
UnsignedValues == {258}
StringValues == {<<65, 66>>}
BlobValues == {<<>>, <<9>>}

Call(op, val) == [op |-> op, val |-> val]

\* one save-side call: the log and the write position before it
Record(op, val) ==
    /\ calls' = Append(calls, Call(op, val))
    /\ startPos' = Append(startPos, getPosition(buffer))

Saving == mpc = "save" /\ Len(calls) < MaxCalls

SaveChar(v) ==
    /\ Saving
    /\ buffer' = save(buffer, v, SizeofChar)
    /\ Record("char", <<v>>)
    /\ UNCHANGED <<endian, openSections, mpc, inPos, loadIdx, loaded, skipped>>
    /\ UNCHANGED <<idVars, ptrVars, shVars, passVars, dirVars, tagVars, polyVars,
                 brVars>>

SaveUnsigned(v) ==
    /\ Saving
    /\ buffer' = save(buffer, v, SizeofUnsigned)
    /\ Record("unsigned", <<v>>)
    /\ UNCHANGED <<endian, openSections, mpc, inPos, loadIdx, loaded, skipped>>
    /\ UNCHANGED <<idVars, ptrVars, shVars, passVars, dirVars, tagVars, polyVars,
                 brVars>>

SaveString(s) ==
    /\ Saving
    /\ buffer' = saveString(buffer, s)
    /\ Record("string", s)
    /\ UNCHANGED <<endian, openSections, mpc, inPos, loadIdx, loaded, skipped>>
    /\ UNCHANGED <<idVars, ptrVars, shVars, passVars, dirVars, tagVars, polyVars,
                 brVars>>

SerializeBlob(d) ==
    /\ Saving
    /\ buffer' = serialize_blob(buffer, d)
    /\ Record("blob", d)
    /\ UNCHANGED <<endian, openSections, mpc, inPos, loadIdx, loaded, skipped>>
    /\ UNCHANGED <<idVars, ptrVars, shVars, passVars, dirVars, tagVars, polyVars,
                 brVars>>

BeginSection ==
    /\ Saving
    /\ buffer' = beginSectionBuffer(buffer)
    /\ openSections' = Append(openSections, beginSectionPos(buffer))
    /\ Record("begin", <<>>)
    /\ UNCHANGED <<endian, mpc, inPos, loadIdx, loaded, skipped>>
    /\ UNCHANGED <<idVars, ptrVars, shVars, passVars, dirVars, tagVars, polyVars,
                 brVars>>

\* endSection logs the begin position it took from openSections
EndSection ==
    /\ Saving
    /\ openSections # <<>>
    /\ buffer' = endSectionBuffer(buffer, back(openSections))
    /\ openSections' = pop_back(openSections)
    /\ Record("end", <<back(openSections)>>)
    /\ UNCHANGED <<endian, mpc, inPos, loadIdx, loaded, skipped>>
    /\ UNCHANGED <<idVars, ptrVars, shVars, passVars, dirVars, tagVars, polyVars,
                 brVars>>

\* endSection with no open section: assert(!openSections.empty()) fails
EndSectionAssert ==
    /\ Saving
    /\ openSections = <<>>
    /\ mpc' = "abort"
    /\ UNCHANGED <<endian, buffer, openSections, calls, startPos, inPos,
                   loadIdx, loaded, skipped>>
    /\ UNCHANGED <<idVars, ptrVars, shVars, passVars, dirVars, tagVars, polyVars,
                 brVars>>

\* the archive is destroyed with a section still open:
\* assert(openSections.empty()) in the destructor fails
DestroyOpenAssert ==
    /\ mpc = "save"
    /\ openSections # <<>>
    /\ mpc' = "abort"
    /\ UNCHANGED <<endian, buffer, openSections, calls, startPos, inPos,
                   loadIdx, loaded, skipped>>
    /\ UNCHANGED <<idVars, ptrVars, shVars, passVars, dirVars, tagVars, polyVars,
                 brVars>>

\* the destructor asserts openSections.empty(): a finished save pass has no
\* open section; its buffer is handed to a MemInputArchive (stealBuffer)
FinishSave ==
    /\ mpc = "save"
    /\ openSections = <<>>
    /\ mpc' = "load"
    /\ inPos' = 0
    /\ loadIdx' = 1
    /\ UNCHANGED <<endian, buffer, openSections, calls, startPos, loaded, skipped>>
    /\ UNCHANGED <<idVars, ptrVars, shVars, passVars, dirVars, tagVars, polyVars,
                 brVars>>

(***************************************************************************)
(* MemInputArchive.                                                        *)
(***************************************************************************)
\* InputBuffer::read and skip need len bytes at the cursor
available(buf, pos, len) == pos + len <= Len(buf)

\* MemInputArchive::get: the bytes read and the cursor after it
getData(buf, pos, len) == IF len # 0 THEN read(buf, pos, len) ELSE <<>>
getPos(pos, len) == IF len # 0 THEN pos + len ELSE pos

\* MemInputArchive::load<T>
load(buf, pos, size) == rawValue(getData(buf, pos, size))
loadPos(pos, size) == getPos(pos, size)

\* MemInputArchive::load(std::string&): the length, then the characters
loadStringLen(buf, pos) == load(buf, pos, SizeofUnsigned)
loadString(buf, pos) ==
    getData(buf, loadPos(pos, SizeofUnsigned), loadStringLen(buf, pos))
loadStringPos(buf, pos) ==
    getPos(loadPos(pos, SizeofUnsigned), loadStringLen(buf, pos))

\* a skipSection(false) that leaves the length prefix unread
skipSectionPos_noPrefix(buf, pos, skip) ==
    IF skip
    THEN loadPos(pos, SizeofUnsigned) + load(buf, pos, SizeofUnsigned)
    ELSE pos

\* a skipSection that ignores its argument
skipSectionPos_never(buf, pos, skip) == loadPos(pos, SizeofUnsigned)

\* MemInputArchive::skipSection: the cursor after it
skipSectionPos(buf, pos, skip) ==
    IF skip
    THEN loadPos(pos, SizeofUnsigned) + load(buf, pos, SizeofUnsigned)
    ELSE loadPos(pos, SizeofUnsigned)

\* The client mirrors its save-side calls (section protocol): a call for
\* every save-side call but endSection.
RECURSIVE Advance(_)
Advance(i) ==
    IF i <= Len(calls) /\ calls[i].op = "end" THEN Advance(i + 1) ELSE i

\* the endSection call that closes the section begun by call i
\* (0 when the section is still open)
RECURSIVE MatchFrom(_, _)
MatchFrom(j, depth) ==
    IF j > Len(calls) THEN 0
    ELSE IF calls[j].op = "end"
    THEN IF depth = 0 THEN j ELSE MatchFrom(j + 1, depth - 1)
    ELSE IF calls[j].op = "begin" THEN MatchFrom(j + 1, depth + 1)
    ELSE MatchFrom(j + 1, depth)
MatchingEnd(i) == MatchFrom(i + 1, 0)

Loading(op) ==
    /\ mpc = "load"
    /\ Advance(loadIdx) <= Len(calls)
    /\ calls[Advance(loadIdx)].op = op

\* a get that moves the cursor without asking the buffer for the bytes
Mirror_unchecked(len, val, pos) ==
    /\ loaded' = Append(loaded, Call(calls[Advance(loadIdx)].op, <<>>))
    /\ inPos' = pos
    /\ loadIdx' = Advance(loadIdx) + 1
    /\ mpc' = mpc

\* a read of len bytes: the pass fails when the stream is too short
Mirror(len, val, pos) ==
    IF available(buffer, inPos, len)
    THEN /\ loaded' = Append(loaded, Call(calls[Advance(loadIdx)].op, val))
         /\ inPos' = pos
         /\ loadIdx' = Advance(loadIdx) + 1
         /\ mpc' = mpc
    ELSE /\ mpc' = "truncated"
         /\ UNCHANGED <<loaded, inPos, loadIdx>>

LoadChar ==
    /\ Loading("char")
    /\ Mirror(SizeofChar, <<load(buffer, inPos, SizeofChar)>>,
              loadPos(inPos, SizeofChar))
    /\ UNCHANGED <<endian, buffer, openSections, calls, startPos, skipped>>
    /\ UNCHANGED <<idVars, ptrVars, shVars, passVars, dirVars, tagVars, polyVars,
                 brVars>>

LoadUnsigned ==
    /\ Loading("unsigned")
    /\ Mirror(SizeofUnsigned, <<load(buffer, inPos, SizeofUnsigned)>>,
              loadPos(inPos, SizeofUnsigned))
    /\ UNCHANGED <<endian, buffer, openSections, calls, startPos, skipped>>
    /\ UNCHANGED <<idVars, ptrVars, shVars, passVars, dirVars, tagVars, polyVars,
                 brVars>>

LoadString ==
    /\ Loading("string")
    /\ IF available(buffer, inPos, SizeofUnsigned)
       THEN Mirror(SizeofUnsigned + loadStringLen(buffer, inPos),
                   loadString(buffer, inPos), loadStringPos(buffer, inPos))
       ELSE Mirror(SizeofUnsigned, <<>>, inPos)
    /\ UNCHANGED <<endian, buffer, openSections, calls, startPos, skipped>>
    /\ UNCHANGED <<idVars, ptrVars, shVars, passVars, dirVars, tagVars, polyVars,
                 brVars>>

\* serialize_blob with the length the saver used
LoadBlob ==
    /\ Loading("blob")
    /\ LET len == Len(calls[Advance(loadIdx)].val)
       IN Mirror(len, getData(buffer, inPos, len), getPos(inPos, len))
    /\ UNCHANGED <<endian, buffer, openSections, calls, startPos, skipped>>
    /\ UNCHANGED <<idVars, ptrVars, shVars, passVars, dirVars, tagVars, polyVars,
                 brVars>>

SkipSection(skip) ==
    /\ Loading("begin")
    /\ IF /\ available(buffer, inPos, SizeofUnsigned)
          /\ available(buffer, inPos, skipSectionPos(buffer, inPos, skip) - inPos)
       THEN /\ inPos' = skipSectionPos(buffer, inPos, skip)
            /\ loaded' = Append(loaded, Call("begin", <<>>))
            /\ loadIdx' = IF skip THEN MatchingEnd(Advance(loadIdx)) + 1
                                  ELSE Advance(loadIdx) + 1
            /\ skipped' = IF skip THEN skipped \cup {Advance(loadIdx)} ELSE skipped
            /\ mpc' = mpc
       ELSE /\ mpc' = "truncated"
            /\ UNCHANGED <<loaded, inPos, loadIdx, skipped>>
    /\ UNCHANGED <<endian, buffer, openSections, calls, startPos>>
    /\ UNCHANGED <<idVars, ptrVars, shVars, passVars, dirVars, tagVars, polyVars,
                 brVars>>

\* a load routine that makes no skipSection call for a section that was
\* saved (section protocol): the archive is not called, the routine goes on
\* with the mirror of the next save-side call
OmitSkipSection ==
    /\ Loading("begin")
    /\ \A i \in 1 .. Len(loaded) : loaded[i].op # "omitted"
    /\ loaded' = Append(loaded, Call("omitted", <<>>))
    /\ loadIdx' = Advance(loadIdx) + 1
    /\ UNCHANGED <<endian, buffer, openSections, calls, startPos, mpc, inPos,
                   skipped>>
    /\ UNCHANGED <<idVars, ptrVars, shVars, passVars, dirVars, tagVars, polyVars,
                 brVars>>

\* the client has mirrored every call
FinishLoad ==
    /\ mpc = "load"
    /\ Advance(loadIdx) > Len(calls)
    /\ mpc' = "done"
    /\ loadIdx' = Advance(loadIdx)
    /\ UNCHANGED <<endian, buffer, openSections, calls, startPos, inPos,
                   loaded, skipped>>
    /\ UNCHANGED <<idVars, ptrVars, shVars, passVars, dirVars, tagVars, polyVars,
                 brVars>>

MemInit ==
    /\ endian \in {"little", "big"}
    /\ buffer = <<>>
    /\ openSections = <<>>
    /\ calls = <<>>
    /\ startPos = <<>>
    /\ mpc = "save"
    /\ inPos = 0
    /\ loadIdx = 1
    /\ loaded = <<>>
    /\ skipped = {}

MemSaveNext ==
    \/ \E v \in CharValues : SaveChar(v)
    \/ \E v \in UnsignedValues : SaveUnsigned(v)
    \/ \E s \in StringValues : SaveString(s)
    \/ \E d \in BlobValues : SerializeBlob(d)
    \/ BeginSection
    \/ EndSection
    \/ EndSectionAssert
    \/ DestroyOpenAssert
    \/ FinishSave

MemLoadNext ==
    \/ LoadChar
    \/ LoadUnsigned
    \/ LoadString
    \/ LoadBlob
    \/ \E skip \in BOOLEAN : SkipSection(skip)
    \/ FinishLoad

\* MemInputArchive(const MemBuffer&) over a stream that lost its last n bytes
FinishSaveTruncated(n) ==
    /\ mpc = "save"
    /\ openSections = <<>>
    /\ n \in 1 .. Len(buffer)
    /\ buffer' = SubSeq(buffer, 1, Len(buffer) - n)
    /\ mpc' = "load"
    /\ inPos' = 0
    /\ loadIdx' = 1
    /\ UNCHANGED <<endian, openSections, calls, startPos, loaded, skipped>>
    /\ UNCHANGED <<idVars, ptrVars, shVars, passVars, dirVars, tagVars, polyVars,
                 brVars>>

\* a save pass, and the mirroring load pass over the whole stream or over a
\* stream that was cut short
TruncNext ==
    \/ /\ Len(calls) < MaxTruncCalls
       /\ \/ \E v \in CharValues : SaveChar(v)
          \/ \E v \in UnsignedValues : SaveUnsigned(v)
          \/ \E s \in StringValues : SaveString(s)
          \/ \E d \in BlobValues : SerializeBlob(d)
          \/ BeginSection
          \/ EndSection
    \/ FinishSave
    \/ \E n \in 1 .. Len(buffer) : FinishSaveTruncated(n)
    \/ MemLoadNext

(***************************************************************************)
(* Section calls on an archive of the other direction: skipSection on an   *)
(* output archive, beginSection and endSection on an input archive.        *)
(***************************************************************************)
\* what such a call can touch: the stream, the open sections, the cursor
Archive(buf, open, pos) ==
    [buffer |-> buf, openSections |-> open, inPos |-> pos, failed |-> FALSE]
ArchiveNow == Archive(buffer, openSections, inPos)

\* a skipSection that does nothing on an output archive
skipSectionOnOutput_nothing(ar, skip) == ar

\* OutputArchiveBase2::skipSection: assert(false)
skipSectionOnOutput(ar, skip) == [ar EXCEPT !.failed = TRUE]

\* InputArchiveBase2::beginSection: assert(false)
beginSectionOnInput(ar) == [ar EXCEPT !.failed = TRUE]

\* InputArchiveBase2::endSection: assert(false)
endSectionOnInput(ar) == [ar EXCEPT !.failed = TRUE]

Misuse(call, ar) ==
    /\ misuse' = call
    /\ buffer' = ar.buffer
    /\ openSections' = ar.openSections
    /\ inPos' = ar.inPos
    /\ mpc' = IF ar.failed THEN "abort" ELSE mpc
    /\ UNCHANGED <<endian, calls, startPos, loadIdx, loaded, skipped>>
    /\ UNCHANGED <<idVars, ptrVars, shVars, passVars, tagVars, polyVars,
                 brVars>>

SkipSectionOnOutput(skip) ==
    /\ mpc = "save"
    /\ Misuse("skipSection", skipSectionOnOutput(ArchiveNow, skip))

BeginSectionOnInput ==
    /\ mpc = "load"
    /\ Misuse("beginSection", beginSectionOnInput(ArchiveNow))

EndSectionOnInput ==
    /\ mpc = "load"
    /\ Misuse("endSection", endSectionOnInput(ArchiveNow))

DirInit == misuse = ""

\* a short save pass and its load pass, with the calls of the other direction
DirNext ==
    \/ /\ Len(calls) < MaxDirCalls
       /\ \/ \E v \in CharValues : SaveChar(v)
          \/ \E v \in UnsignedValues : SaveUnsigned(v)
          \/ \E s \in StringValues : SaveString(s)
          \/ \E d \in BlobValues : SerializeBlob(d)
          \/ BeginSection
          \/ EndSection
    \/ FinishSave
    \/ MemLoadNext
    \/ \E skip \in BOOLEAN : SkipSectionOnOutput(skip)
    \/ BeginSectionOnInput
    \/ EndSectionOnInput

(***************************************************************************)
(* OutputArchiveBase2: identity tables of a save pass.                     *)
(***************************************************************************)
\* addresses of the objects of the client; 0 is the null pointer
NULL == 0
Addrs == {1, 2}
\* static types: two class types without virtual members (an outer structure
\* and its first member share an address), and a polymorphic hierarchy
PlainTypes == {"Outer", "Inner"}
PolyTypes == {"Base", "Derived"}
Types == PlainTypes \cup PolyTypes

is_polymorphic(T) == T \in PolyTypes

\* the tables as one value
Tables(im, pm, li) == [idMap |-> im, polyIdMap |-> pm, lastId |-> li]
Result(t, id) == [t |-> t, ret |-> id]

\* OutputArchiveBase2::generateID1: fresh ID for a polymorphic object
generateID1(t, p) ==
    Result(Tables(t.idMap, (p :> (t.lastId + 1)) @@ t.polyIdMap, t.lastId + 1),
           t.lastId + 1)

\* OutputArchiveBase2::generateID2: fresh ID for <<address, type>>
generateID2(t, p, T) ==
    Result(Tables((<<p, T>> :> (t.lastId + 1)) @@ t.idMap, t.polyIdMap,
                  t.lastId + 1),
           t.lastId + 1)

\* OutputArchiveBase2::getID1 and getID2: 0 when the key is not there
getID1(t, p) == IF p \in DOMAIN t.polyIdMap THEN t.polyIdMap[p] ELSE 0
getID2(t, p, T) == IF <<p, T>> \in DOMAIN t.idMap THEN t.idMap[<<p, T>>] ELSE 0

\* a generateId that hands out the address of the object as its ID
generateId_address(t, p, T) ==
    IF is_polymorphic(T)
    THEN Result(Tables(t.idMap, (p :> p) @@ t.polyIdMap, t.lastId + 1), p)
    ELSE Result(Tables((<<p, T>> :> p) @@ t.idMap, t.polyIdMap, t.lastId + 1), p)

\* a generateId that looks a polymorphic object up instead of registering it
generateId_lookup(t, p, T) ==
    IF is_polymorphic(T) THEN Result(t, getID1(t, p)) ELSE generateID2(t, p, T)

\* a generateId that keys every object by <<address, type>>
generateId_typed(t, p, T) == generateID2(t, p, T)

\* OutputArchiveBase2::generateId<T>
generateId(t, p, T) ==
    IF is_polymorphic(T) THEN generateID1(t, p) ELSE generateID2(t, p, T)

\* a getId that keys every object by its address only
getId_untyped(t, p, T) == getID1(t, p)

\* OutputArchiveBase2::getId<T>
getId(t, p, T) ==
    IF is_polymorphic(T) THEN getID1(t, p) ELSE getID2(t, p, T)

\* a getId that looks the key up as std::map::operator[] does: a key that is
\* not there is entered with the value 0
getIdCall_inserting(t, p, T) ==
    IF getId(t, p, T) # 0 THEN Result(t, getId(t, p, T))
    ELSE IF is_polymorphic(T)
    THEN Result(Tables(t.idMap, (p :> 0) @@ t.polyIdMap, t.lastId), 0)
    ELSE Result(Tables((<<p, T>> :> 0) @@ t.idMap, t.polyIdMap, t.lastId), 0)

\* a call of getId: the tables after it and what it returns
getIdCall(t, p, T) == Result(t, getId(t, p, T))

\* the identity key of an object, as the comment in generateId describes it
IdentityKey(p, T) == IF is_polymorphic(T) THEN <<p>> ELSE <<p, T>>

Now == Tables(idMap, polyIdMap, lastId)

SetTables(t) ==
    /\ idMap' = t.idMap
    /\ polyIdMap' = t.polyIdMap
    /\ lastId' = t.lastId

Gen(p, T, id) == [p |-> p, T |-> T, id |-> id]
NoRet == Gen(NULL, "", 0)

\* an object is given to generateId once per pass
Unseen(p, T) ==
    \A k \in 1 .. Len(genLog) :
        IdentityKey(genLog[k].p, genLog[k].T) # IdentityKey(p, T)

\* Saver<T>(ar, t, saveId): the ID, when asked for, then the content
Saver(t, p, T, saveId) ==
    IF saveId
    THEN LET g == generateId(t, p, T)
         IN [t |-> g.t, gen |-> <<Gen(p, T, g.ret)>>,
             events |-> <<[kind |-> "id", p |-> p, T |-> T, id |-> g.ret],
                          [kind |-> "content", p |-> p, T |-> T, id |-> 0]>>]
    ELSE [t |-> t, gen |-> <<>>,
          events |-> <<[kind |-> "content", p |-> p, T |-> T, id |-> 0]>>]

\* IDSaver<T>(ar, t): only the ID of the object, 0 for a null pointer
IDSaver(t, p, T) ==
    [t |-> t, gen |-> <<>>,
     events |-> <<[kind |-> "id_ref", p |-> p, T |-> T,
                   id |-> IF p = NULL THEN 0 ELSE getId(t, p, T)]>>]

\* OutputArchiveBase::serializeWithID (beginTag and endTag do nothing here)
serializeWithID(t, p, T) == Saver(t, p, T, TRUE)

\* a serializePointerID that runs the Saver, as serializeWithID does
serializePointerID_saver(t, p, T) == Saver(t, p, T, TRUE)

\* OutputArchiveBase::serializePointerID
serializePointerID(t, p, T) == IDSaver(t, p, T)

IdCalling == idCalls < MaxIdCalls

Emit(r) ==
    /\ SetTables(r.t)
    /\ genLog' = genLog \o r.gen
    /\ out' = out \o r.events
    /\ idRet' = NoRet
    /\ idCalls' = idCalls + 1

SerializeWithID(p, T) ==
    /\ IdCalling
    /\ Unseen(p, T)
    /\ Emit(serializeWithID(Now, p, T))
    /\ UNCHANGED <<memVars, ptrVars, shVars, passVars, dirVars, tagVars, polyVars,
                 brVars>>

\* a reference to an object that was saved with serializeWithID before
SerializePointerID(p, T) ==
    /\ IdCalling
    /\ ~Unseen(p, T)
    /\ Emit(serializePointerID(Now, p, T))
    /\ UNCHANGED <<memVars, ptrVars, shVars, passVars, dirVars, tagVars, polyVars,
                 brVars>>

\* a null reference
SerializeNullPointerID ==
    /\ IdCalling
    /\ Emit(serializePointerID(Now, NULL, "Base"))
    /\ UNCHANGED <<memVars, ptrVars, shVars, passVars, dirVars, tagVars, polyVars,
                 brVars>>

\* a getId call for any object, saved or not
GetId(p, T) ==
    /\ IdCalling
    /\ SetTables(getIdCall(Now, p, T).t)
    /\ idRet' = Gen(p, T, getIdCall(Now, p, T).ret)
    /\ idCalls' = idCalls + 1
    /\ UNCHANGED <<genLog, out>>
    /\ UNCHANGED <<memVars, ptrVars, shVars, passVars, dirVars, tagVars, polyVars,
                 brVars>>

\* OutputArchiveBase2::OutputArchiveBase2
IdInit ==
    /\ idMap = <<>>
    /\ polyIdMap = <<>>
    /\ lastId = 0
    /\ genLog = <<>>
    /\ out = <<>>
    /\ idRet = NoRet
    /\ idCalls = 0

IdNext ==
    \/ \E p \in Addrs, T \in Types : SerializeWithID(p, T)
    \/ \E p \in Addrs, T \in Types : SerializePointerID(p, T)
    \/ SerializeNullPointerID
    \/ \E p \in Addrs, T \in Types : GetId(p, T)

(***************************************************************************)
(* InputArchiveBase2: the pointer table of a load pass.                    *)
(***************************************************************************)
\* IDs read from a stream, and the objects the loader reconstructs
Ids == 1 .. 3
Handles == {1, 2}

\* a getPointer that answers with the entry of the highest ID at or below id
getPointer_last(m, id) ==
    IF \E k \in DOMAIN m : k <= id
    THEN m[CHOOSE k \in DOMAIN m : k <= id /\ \A j \in DOMAIN m : j <= id => j <= k]
    ELSE NULL

\* InputArchiveBase2::getPointer
getPointer(m, id) == IF id \in DOMAIN m THEN m[id] ELSE NULL

\* InputArchiveBase2::addPointer
addPointer(m, id, h) == (id :> h) @@ m

Ptr(id, h) == [id |-> id, h |-> h]
NoPtr == Ptr(0, NULL)

\* an object is recorded when it has been loaded, once per ID
AddPointer(id, h) ==
    /\ ptrCalls < MaxPtrCalls
    /\ \A a \in 1 .. Len(addLog) : addLog[a].id # id
    /\ ptrIdMap' = addPointer(ptrIdMap, id, h)
    /\ addLog' = Append(addLog, Ptr(id, h))
    /\ ptrRet' = NoPtr
    /\ ptrCalls' = ptrCalls + 1
    /\ UNCHANGED <<memVars, idVars, shVars, passVars, dirVars, tagVars, polyVars,
                 brVars>>

GetPointer(id) ==
    /\ ptrCalls < MaxPtrCalls
    /\ ptrRet' = Ptr(id, getPointer(ptrIdMap, id))
    /\ ptrCalls' = ptrCalls + 1
    /\ UNCHANGED <<ptrIdMap, addLog>>
    /\ UNCHANGED <<memVars, idVars, shVars, passVars, dirVars, tagVars, polyVars,
                 brVars>>

PtrInit ==
    /\ ptrIdMap = <<>>
    /\ addLog = <<>>
    /\ ptrRet = NoPtr
    /\ ptrCalls = 0

PtrNext ==
    \/ \E id \in Ids, h \in Handles : AddPointer(id, h)
    \/ \E id \in Ids : GetPointer(id)

(***************************************************************************)
(* A save pass through the front-end calls of OutputArchiveBase and the    *)
(* load pass through those of InputArchiveBase that mirrors it.            *)
(***************************************************************************)
\* the objects of the client in a mirrored pass, and the handles under
\* which a pointer to them may be saved (address 2 holds a Derived that is
\* also reachable as a Base)
PassObjects == {<<1, "Outer">>, <<1, "Inner">>, <<2, "Derived">>}
PassRefs == PassObjects \cup {<<2, "Base">>}

\* extra constructor arguments of a serializeWithID call
ArgSeqs == {<<7>>, <<7, 8>>, <<7, 8, 9>>}

\* a serialize whose Saver writes an ID
serialize_saveId(t, p, T) == Saver(t, p, T, TRUE)

\* OutputArchiveBase::serialize: the Saver without an ID
serialize(t, p, T) == Saver(t, p, T, FALSE)

\* a serializeWithID with one extra argument whose Saver writes no ID
serializeWithID1_plain(t, p, T, t1) == Saver(t, p, T, FALSE)

\* OutputArchiveBase::serializeWithID(tag, t, t1): the argument is not used
serializeWithID1(t, p, T, t1) == serializeWithID(t, p, T)

\* OutputArchiveBase::serializeWithID(tag, t, t1, t2)
serializeWithID2(t, p, T, t1, t2) == serializeWithID(t, p, T)

\* OutputArchiveBase::serializeWithID(tag, t, t1, t2, t3)
serializeWithID3(t, p, T, t1, t2, t3) == serializeWithID(t, p, T)

\* serializeWithID(tag, t, args...) for a tuple of 0 to 3 extra arguments
serializeWithIDArgs(t, p, T, a) ==
    CASE Len(a) = 0 -> serializeWithID(t, p, T)
      [] Len(a) = 1 -> serializeWithID1(t, p, T, a[1])
      [] Len(a) = 2 -> serializeWithID2(t, p, T, a[1], a[2])
      [] Len(a) = 3 -> serializeWithID3(t, p, T, a[1], a[2], a[3])

PassCall(call, p, T, a) == [call |-> call, p |-> p, T |-> T, args |-> a]

\* a front-end call of the save pass
PassEmit(call, p, T, a, r) ==
    /\ ipc = "save"
    /\ idCalls < MaxPassCalls
    /\ Emit(r)
    /\ pcalls' = Append(pcalls, PassCall(call, p, T, a))
    /\ UNCHANGED <<ipc, stream, rdPos, ldIdx, ldLog, tampered>>
    /\ UNCHANGED <<memVars, ptrVars, shVars, dirVars, tagVars, polyVars,
                 brVars>>

PassSerializeWithID(p, T) ==
    /\ Unseen(p, T)
    /\ PassEmit("withID", p, T, <<>>, serializeWithID(Now, p, T))

PassSerializeWithIDArgs(p, T, a) ==
    /\ Unseen(p, T)
    /\ PassEmit("withID", p, T, a, serializeWithIDArgs(Now, p, T, a))

\* a reference to an object that was saved with serializeWithID before
PassSerializePointerID(p, T) ==
    /\ ~Unseen(p, T)
    /\ PassEmit("pointerID", p, T, <<>>, serializePointerID(Now, p, T))

PassSerializeNullPointerID ==
    PassEmit("pointerID", NULL, "Base", <<>>, serializePointerID(Now, NULL, "Base"))

PassSerialize(p, T) ==
    PassEmit("serialize", p, T, <<>>, serialize(Now, p, T))

\* the positions of the references in a stream
Refs(s) == {j \in 1 .. Len(s) : s[j].kind = "id_ref"}

\* the streams that differ from s in the ID of one reference
Tampered(s) ==
    {[s EXCEPT ![j].id = i] : j \in Refs(s), i \in 1 .. lastId + 1} \ {s}

\* the save pass ends and a load pass is given the stream it wrote, or a
\* stream in which one reference names another ID
FinishPassSave(s) ==
    /\ ipc = "save"
    /\ ipc' = "load"
    /\ stream' = s
    /\ tampered' = (s # out)
    /\ UNCHANGED <<pcalls, rdPos, ldIdx, ldLog>>
    /\ UNCHANGED <<memVars, idVars, ptrVars, shVars, dirVars, tagVars, polyVars,
                 brVars>>

\* the state of the input archive: pointer table and read position
Ld(m, pos) == [m |-> m, pos |-> pos, log |-> <<>>, status |-> "ok"]
LdNow == Ld(ptrIdMap, rdPos)

\* the next entry of the stream is of the given kind
HasNext(l, kind) == l.pos < Len(stream) /\ stream[l.pos + 1].kind = kind

LdEvent(op, id, h) == [op |-> op, id |-> id, h |-> h, call |-> ldIdx]

\* Loader<T>(ar, t, args, id): id 0 reads the ID from the stream, id -1 reads
\* none and records nothing; the object is recorded before its content is read
Loader(l, h, a, id) ==
    IF id = 0 /\ ~HasNext(l, "id")
    THEN [l EXCEPT !.status = "misread"]
    ELSE LET id1 == IF id = 0 THEN stream[l.pos + 1].id ELSE id
             l1 == IF id = 0 THEN [l EXCEPT !.pos = l.pos + 1] ELSE l
             l2 == IF id = -1 THEN l1
                   ELSE [l1 EXCEPT !.m = addPointer(l1.m, id1, h),
                                   !.log = Append(l1.log, LdEvent("add", id1, h))]
         IN IF HasNext(l2, "content")
            THEN [l2 EXCEPT !.pos = l2.pos + 1]
            ELSE [l2 EXCEPT !.status = "misread"]

\* IDLoader<T>(ar, t): reads the ID of the reference; 0 is the null pointer,
\* any other ID has to be in the pointer table
IDLoader(l) ==
    IF ~HasNext(l, "id_ref")
    THEN [l EXCEPT !.status = "misread"]
    ELSE LET id == stream[l.pos + 1].id
             l1 == [l EXCEPT !.pos = l.pos + 1]
             h  == getPointer(l.m, id)
         IN IF id = 0 THEN l1
            ELSE [l1 EXCEPT !.log = Append(l1.log, LdEvent("get", id, h)),
                            !.status = IF h = NULL THEN "failed" ELSE "ok"]

\* InputArchiveBase::doSerialize (beginTag and endTag do nothing here)
doSerialize(l, h, a, id) == Loader(l, h, a, id)

\* a serializeWithID that tells the Loader to load no ID
loadSerializeWithID_noId(l, h, a) == doSerialize(l, h, a, -1)

\* InputArchiveBase::serializeWithID, with 0 to 3 extra arguments: the
\* default "int id = 0" of doSerialize
loadSerializeWithID(l, h, a) == doSerialize(l, h, a, 0)

\* InputArchiveBase::serialize: "don't load id"
loadSerialize(l, h) == Loader(l, h, <<>>, -1)

\* a serializePointerID that takes whatever getPointer answers
loadSerializePointerID_unchecked(l) ==
    [IDLoader(l) EXCEPT !.status = IF @ = "failed" THEN "ok" ELSE @]

\* InputArchiveBase::serializePointerID
loadSerializePointerID(l) == IDLoader(l)

\* a front-end call of the load pass: the mirror of the call at ldIdx
PassLoad(l) ==
    /\ ptrIdMap' = l.m
    /\ rdPos' = l.pos
    /\ ldLog' = ldLog \o l.log
    /\ addLog' = addLog \o [k \in 1 .. Len(SelectSeq(l.log, LAMBDA e : e.op = "add")) |->
                              Ptr(SelectSeq(l.log, LAMBDA e : e.op = "add")[k].id,
                                  SelectSeq(l.log, LAMBDA e : e.op = "add")[k].h)]
    /\ ptrRet' = IF \E k \in 1 .. Len(l.log) : l.log[k].op = "get"
                 THEN Ptr(l.log[Len(l.log)].id, l.log[Len(l.log)].h)
                 ELSE ptrRet
    /\ ipc' = IF l.status = "ok" THEN "load" ELSE l.status
    /\ ldIdx' = IF l.status = "ok" THEN ldIdx + 1 ELSE ldIdx
    /\ UNCHANGED <<pcalls, stream, tampered, ptrCalls>>
    /\ UNCHANGED <<memVars, idVars, shVars, dirVars, tagVars, polyVars,
                 brVars>>

Mirroring(call) ==
    /\ ipc = "load"
    /\ ldIdx <= Len(pcalls)
    /\ pcalls[ldIdx].call = call

LoadSerializeWithID ==
    /\ Mirroring("withID")
    /\ PassLoad(loadSerializeWithID(LdNow, pcalls[ldIdx].p, pcalls[ldIdx].args))

LoadSerializePointerID ==
    /\ Mirroring("pointerID")
    /\ PassLoad(loadSerializePointerID(LdNow))

LoadSerialize ==
    /\ Mirroring("serialize")
    /\ PassLoad(loadSerialize(LdNow, pcalls[ldIdx].p))

FinishPassLoad ==
    /\ ipc = "load"
    /\ ldIdx > Len(pcalls)
    /\ ipc' = "done"
    /\ UNCHANGED <<pcalls, stream, rdPos, ldIdx, ldLog, tampered>>
    /\ UNCHANGED <<memVars, idVars, ptrVars, shVars, dirVars, tagVars, polyVars,
                 brVars>>

PassInit ==
    /\ ipc = "save"
    /\ pcalls = <<>>
    /\ stream = <<>>
    /\ rdPos = 0
    /\ ldIdx = 1
    /\ ldLog = <<>>
    /\ tampered = FALSE

PassNext ==
    \/ \E o \in PassObjects : PassSerializeWithID(o[1], o[2])
    \/ \E o \in PassObjects, a \in ArgSeqs : PassSerializeWithIDArgs(o[1], o[2], a)
    \/ \E o \in PassRefs : PassSerializePointerID(o[1], o[2])
    \/ PassSerializeNullPointerID
    \/ \E o \in PassObjects : PassSerialize(o[1], o[2])
    \/ FinishPassSave(out)
    \/ \E s \in Tampered(out) : FinishPassSave(s)
    \/ LoadSerializeWithID
    \/ LoadSerializePointerID
    \/ LoadSerialize
    \/ FinishPassLoad

(***************************************************************************)
(* One client on either backend: tags, version attributes and primitive    *)
(* values of a save pass and of the load pass that mirrors it.             *)
(***************************************************************************)
Backends == {"Mem", "Xml"}
TagNames == {"x", "y"}
IntValues == {7, 42}
\* the client type Dev: field a since version 1, field b since version 2
Versions == {1, 2}
DevValues == {[a |-> 3, b |-> 15]}
DefaultB == 0

\* StringOp::toString of a number: its decimal digits as characters
RECURSIVE toString(_)
toString(v) ==
    IF v < 10 THEN <<48 + v>> ELSE toString(v \div 10) \o <<48 + (v % 10)>>

\* "is >> t" on the text of a number
RECURSIVE parse(_)
parse(s) ==
    IF s = <<>> THEN 0
    ELSE 10 * parse(SubSeq(s, 1, Len(s) - 1)) + (s[Len(s)] - 48)

\* an archive that stores version information whatever its backend
needVersion_always(b) == TRUE

\* an archive that stores no version information whatever its backend
needVersion_never(b) == FALSE

\* ArchiveBase::needVersion is true; MemOutputArchive and MemInputArchive
\* return false; the Xml archives do not redefine it
needVersion(b) == IF b = "Mem" THEN FALSE ELSE TRUE

\* the concrete archive classes of the two backends
OutputArchive(b) == IF b = "Mem" THEN "MemOutputArchive" ELSE "XmlOutputArchive"
InputArchive(b) == IF b = "Mem" THEN "MemInputArchive" ELSE "XmlInputArchive"
ArchiveClasses ==
    {OutputArchive(b) : b \in Backends} \cup {InputArchive(b) : b \in Backends}

\* OutputArchiveBase2::isLoader is false, InputArchiveBase2::isLoader is true
isLoader(cls) == cls \in {InputArchive(b) : b \in Backends}

\* needVersion of a class: ArchiveBase says true, the two Mem archives
\* redefine it as false
needVersionOf(cls) == cls \notin {"MemOutputArchive", "MemInputArchive"}

\* ArchiveBase::translateEnumToString is false; XmlOutputArchive and
\* XmlInputArchive redefine it as true
translateEnumToString(cls) == cls \in {"XmlOutputArchive", "XmlInputArchive"}

\* ArchiveBase::canHaveOptionalAttributes is false; the two Xml archives
\* redefine it as true
canHaveOptionalAttributes(cls) == cls \in {"XmlOutputArchive", "XmlInputArchive"}

\* a canCountChildren that only the output archive redefines
canCountChildren_outputOnly(cls) == cls \in {"XmlOutputArchive"}

\* ArchiveBase::canCountChildren is false; the two Xml archives redefine it
\* as true
canCountChildren(cls) == cls \in {"XmlOutputArchive", "XmlInputArchive"}

\* the four capability probes of an archive
Probes(cls) ==
    [needVersion |-> needVersionOf(cls),
     translateEnumToString |-> translateEnumToString(cls),
     canHaveOptionalAttributes |-> canHaveOptionalAttributes(cls),
     canCountChildren |-> canCountChildren(cls)]

\* one entry of the stream
Tok(t, name, val) == [t |-> t, name |-> name, val |-> val]

\* a beginTag that names the tag in the stream of every backend
beginTagSave_named(b, tag) == <<Tok("begin", tag, <<>>)>>

\* beginTag on an output archive: XmlOutputArchive names the tag,
\* ArchiveBase::beginTag does nothing
beginTagSave(b, tag) == IF b = "Xml" THEN <<Tok("begin", tag, <<>>)>> ELSE <<>>

\* endTag on an output archive
endTagSave(b, tag) == IF b = "Xml" THEN <<Tok("end", tag, <<>>)>> ELSE <<>>

\* save of a primitive value: text on Xml (saveImpl), raw value on Mem
savePrim(b, v) ==
    IF b = "Xml" THEN <<Tok("text", "", toString(v))>> ELSE <<Tok("raw", "", v)>>

\* OutputArchiveBase::serialize of a primitive value
serializePrimSave(b, tag, v) ==
    beginTagSave(b, tag) \o savePrim(b, v) \o endTagSave(b, tag)

\* an attribute that leaves nothing in a stream without attributes
attributeSave_nothing(b, name, v) ==
    IF b = "Xml" THEN <<Tok("attr", name, toString(v))>> ELSE <<>>

\* attribute on an output archive: XmlOutputArchive stores an attribute,
\* ArchiveBase::attribute is self().serialize(name, t)
attributeSave(b, name, v) ==
    IF b = "Xml" THEN <<Tok("attr", name, toString(v))>>
    ELSE serializePrimSave(b, name, v)

\* Dev::serialize(ar, version) of the build "build": the fields in order
DevFields(build, version) ==
    IF build >= 2 /\ version >= 2 THEN <<"a", "b">> ELSE <<"a">>

RECURSIVE devSave(_, _, _)
devSave(b, fields, obj) ==
    IF fields = <<>> THEN <<>>
    ELSE serializePrimSave(b, Head(fields), obj[Head(fields)])
            \o devSave(b, Tail(fields), obj)

\* the Saver of a class type: its version when the archive needs it, then
\* the fields its serialize routine writes
ClassSaver(b, build, obj) ==
    (IF needVersion(b) THEN attributeSave(b, "version", build) ELSE <<>>)
       \o devSave(b, DevFields(build, build), obj)

\* OutputArchiveBase::serialize of a Dev
serializeDevSave(b, tag, build, obj) ==
    beginTagSave(b, tag) \o ClassSaver(b, build, obj) \o endTagSave(b, tag)

XCall(kind, tag, val) == [kind |-> kind, tag |-> tag, val |-> val]

XEmit(call, toks) ==
    /\ xpc = "save"
    /\ Len(xcalls) < MaxTagCalls
    /\ xcalls' = Append(xcalls, call)
    /\ xstart' = Append(xstart, Len(xdoc) + 1)
    /\ xdoc' = xdoc \o toks
    /\ UNCHANGED <<backend, wver, rver, xpc, xpos, xldIdx, xloaded, swapped>>
    /\ UNCHANGED <<memVars, idVars, ptrVars, shVars, passVars, dirVars, polyVars,
                 brVars>>

TagSerializeInt(tag, v) ==
    XEmit(XCall("int", tag, v), serializePrimSave(backend, tag, v))

TagSerializeDev(tag, obj) ==
    XEmit(XCall("Dev", tag, obj), serializeDevSave(backend, tag, wver, obj))

\* the entries of call k in the stream
BlockEnd(k) == IF k < Len(xstart) THEN xstart[k + 1] - 1 ELSE Len(xdoc)
Block(k) == SubSeq(xdoc, xstart[k], BlockEnd(k))

\* the stream with the entries of calls i and i+1 in each other's place
SwapBlocks(i) ==
    SubSeq(xdoc, 1, xstart[i] - 1) \o Block(i + 1) \o Block(i)
       \o SubSeq(xdoc, BlockEnd(i + 1) + 1, Len(xdoc))

\* the save pass ends; the load pass is given the stream as written
FinishTagSave ==
    /\ xpc = "save"
    /\ xpc' = "load"
    /\ UNCHANGED <<backend, wver, rver, xdoc, xcalls, xstart, xpos, xldIdx,
                   xloaded, swapped>>
    /\ UNCHANGED <<memVars, idVars, ptrVars, shVars, passVars, dirVars, polyVars,
                 brVars>>

\* the load pass is given the stream with two neighbouring elements swapped
FinishTagSaveSwapped(i) ==
    /\ xpc = "save"
    /\ SwapBlocks(i) # xdoc
    /\ xpc' = "load"
    /\ xdoc' = SwapBlocks(i)
    /\ swapped' = i
    /\ UNCHANGED <<backend, wver, rver, xcalls, xstart, xpos, xldIdx, xloaded>>
    /\ UNCHANGED <<memVars, idVars, ptrVars, shVars, passVars, dirVars, polyVars,
                 brVars>>

\* the reader: position, status, and the value of the last read
Reader(pos) == [pos |-> pos, status |-> "ok", ret |-> 0]
HasTok(r, t) == r.pos < Len(xdoc) /\ xdoc[r.pos + 1].t = t
Fail(r, how) == IF r.status = "ok" THEN [r EXCEPT !.status = how] ELSE r

\* XmlInputArchive::beginTag: the element at the cursor has to have the
\* given name; no other element is looked at
xmlBeginTag(r, tag) ==
    IF r.status = "ok" /\ HasTok(r, "begin") /\ xdoc[r.pos + 1].name = tag
    THEN [r EXCEPT !.pos = r.pos + 1]
    ELSE Fail(r, "mismatch")

\* XmlInputArchive::endTag
xmlEndTag(r, tag) ==
    IF r.status = "ok" /\ HasTok(r, "end") /\ xdoc[r.pos + 1].name = tag
    THEN [r EXCEPT !.pos = r.pos + 1]
    ELSE Fail(r, "mismatch")

\* a loader whose beginTag is ArchiveBase::beginTag on every backend
beginTagLoad_nothing(b, r, tag) == r

\* beginTag on an input archive: XmlInputArchive::beginTag checks the name,
\* ArchiveBase::beginTag does nothing
beginTagLoad(b, r, tag) == IF b = "Xml" THEN xmlBeginTag(r, tag) ELSE r

\* endTag on an input archive
endTagLoad(b, r, tag) == IF b = "Xml" THEN xmlEndTag(r, tag) ELSE r

\* load of a primitive value: parsed text on Xml (loadImpl), raw on Mem
loadPrim(b, r) ==
    IF r.status # "ok" THEN r
    ELSE IF b = "Xml"
         THEN IF HasTok(r, "text")
              THEN [r EXCEPT !.pos = r.pos + 1, !.ret = parse(xdoc[r.pos + 1].val)]
              ELSE Fail(r, "misread")
         ELSE IF HasTok(r, "raw")
              THEN [r EXCEPT !.pos = r.pos + 1, !.ret = xdoc[r.pos + 1].val]
              ELSE Fail(r, "truncated")

\* InputArchiveBase::serialize of a primitive value
serializePrimLoad(b, r, tag) ==
    endTagLoad(b, loadPrim(b, beginTagLoad(b, r, tag)), tag)

\* attribute on an input archive
attributeLoad(b, r, name) ==
    IF b = "Xml"
    THEN IF r.status = "ok" /\ HasTok(r, "attr") /\ xdoc[r.pos + 1].name = name
         THEN [r EXCEPT !.pos = r.pos + 1, !.ret = parse(xdoc[r.pos + 1].val)]
         ELSE Fail(r, "misread")
    ELSE serializePrimLoad(b, r, name)

\* the version the Loader of a class type hands to the serialize routine:
\* the stored one when the archive stores versions, else the current one
loadVersion(b, r, build) ==
    IF needVersion(b) THEN attributeLoad(b, r, "version")
    ELSE [r EXCEPT !.ret = build]

\* Dev::serialize(ar, version) on an input archive: the fields the routine
\* reads, a missing newer field keeps its default
DevLoaded(version, a, bb) == [version |-> version, a |-> a, b |-> bb]

devLoad(b, r, build, version) ==
    LET ra == serializePrimLoad(b, r, "a")
        rb == IF "b" \in {DevFields(build, version)[k] : k \in 1 .. Len(DevFields(build, version))}
              THEN serializePrimLoad(b, ra, "b")
              ELSE [ra EXCEPT !.ret = DefaultB]
    IN [rb EXCEPT !.ret = DevLoaded(version, ra.ret, rb.ret)]

\* the Loader of a class type
ClassLoader(b, r, build) ==
    LET rv == loadVersion(b, r, build)
    IN IF rv.status # "ok" THEN rv ELSE devLoad(b, rv, build, rv.ret)

\* InputArchiveBase::serialize of a Dev
serializeDevLoad(b, r, tag, build) ==
    endTagLoad(b, ClassLoader(b, beginTagLoad(b, r, tag), build), tag)

XMirroring(kind) ==
    /\ xpc = "load"
    /\ xldIdx <= Len(xcalls)
    /\ xcalls[xldIdx].kind = kind

XLoad(r) ==
    /\ xpos' = r.pos
    /\ xpc' = IF r.status = "ok" THEN "load" ELSE r.status
    /\ xldIdx' = IF r.status = "ok" THEN xldIdx + 1 ELSE xldIdx
    /\ xloaded' = IF r.status = "ok" THEN Append(xloaded, r.ret) ELSE xloaded
    /\ UNCHANGED <<backend, wver, rver, xdoc, xcalls, xstart, swapped>>
    /\ UNCHANGED <<memVars, idVars, ptrVars, shVars, passVars, dirVars, polyVars,
                 brVars>>

TagLoadInt ==
    /\ XMirroring("int")
    /\ XLoad(serializePrimLoad(backend, Reader(xpos), xcalls[xldIdx].tag))

TagLoadDev ==
    /\ XMirroring("Dev")
    /\ XLoad(serializeDevLoad(backend, Reader(xpos), xcalls[xldIdx].tag, rver))

FinishTagLoad ==
    /\ xpc = "load"
    /\ xldIdx > Len(xcalls)
    /\ xpc' = "done"
    /\ UNCHANGED <<backend, wver, rver, xdoc, xcalls, xstart, xpos, xldIdx,
                   xloaded, swapped>>
    /\ UNCHANGED <<memVars, idVars, ptrVars, shVars, passVars, dirVars, polyVars,
                 brVars>>

\* XmlOutputArchive::beginSection and endSection: the document after it
xmlBeginSection(doc) == doc
xmlEndSection(doc) == doc

\* a skipSection(true) that steps over the element at the cursor
xmlSkipSection_skipping(r, skip) ==
    IF skip /\ r.pos < Len(xdoc) THEN [r EXCEPT !.pos = r.pos + 1] ELSE r

\* XmlInputArchive::skipSection: the reader after it
xmlSkipSection(r, skip) == r

\* the sections of the pass that are open after its first n calls
XOpenSections(n) ==
    Cardinality({k \in 1 .. n : xcalls[k].kind = "begin"})
       - Cardinality({k \in 1 .. n : xcalls[k].kind = "end"})

\* a section call of the save pass on the portable backend
XSection(kind, doc) ==
    /\ xpc = "save"
    /\ backend = "Xml"
    /\ Len(xcalls) < MaxTagCalls
    /\ xcalls' = Append(xcalls, XCall(kind, "", 0))
    /\ xstart' = Append(xstart, Len(xdoc) + 1)
    /\ xdoc' = doc
    /\ UNCHANGED <<backend, wver, rver, xpc, xpos, xldIdx, xloaded, swapped>>
    /\ UNCHANGED <<memVars, idVars, ptrVars, shVars, passVars, dirVars, polyVars,
                 brVars>>

TagBeginSection == XSection("begin", xmlBeginSection(xdoc))

TagEndSection ==
    /\ XOpenSections(Len(xcalls)) > 0
    /\ XSection("end", xmlEndSection(xdoc))

\* the save pass ends with every section closed
FinishSectionSave ==
    /\ XOpenSections(Len(xcalls)) = 0
    /\ FinishTagSave

\* the endSection call that closes the section begun by call i
RECURSIVE XMatchFrom(_, _)
XMatchFrom(j, depth) ==
    IF j > Len(xcalls) THEN 0
    ELSE IF xcalls[j].kind = "end"
    THEN IF depth = 0 THEN j ELSE XMatchFrom(j + 1, depth - 1)
    ELSE IF xcalls[j].kind = "begin" THEN XMatchFrom(j + 1, depth + 1)
    ELSE XMatchFrom(j + 1, depth)

\* skipSection(skip) of the load pass: with skip the load routine makes no
\* call for the content of the section
TagSkipSection(skip) ==
    /\ XMirroring("begin")
    /\ backend = "Xml"
    /\ xpos' = xmlSkipSection(Reader(xpos), skip).pos
    /\ xldIdx' = IF skip THEN XMatchFrom(xldIdx + 1, 0) + 1 ELSE xldIdx + 1
    /\ UNCHANGED <<backend, wver, rver, xdoc, xcalls, xstart, xpc, xloaded,
                   swapped>>
    /\ UNCHANGED <<memVars, idVars, ptrVars, shVars, passVars, dirVars, polyVars,
                 brVars>>

\* the load routine has no call where the save routine called endSection
TagPastEndSection ==
    /\ XMirroring("end")
    /\ xldIdx' = xldIdx + 1
    /\ UNCHANGED <<backend, wver, rver, xdoc, xcalls, xstart, xpc, xpos,
                   xloaded, swapped>>
    /\ UNCHANGED <<memVars, idVars, ptrVars, shVars, passVars, dirVars, polyVars,
                 brVars>>

\* a stream is loaded by the build that wrote it or by a later one
TagInit ==
    /\ backend \in Backends
    /\ wver \in Versions
    /\ rver \in Versions
    /\ wver <= rver
    /\ xdoc = <<>>
    /\ xcalls = <<>>
    /\ xstart = <<>>
    /\ xpc = "save"
    /\ xpos = 0
    /\ xldIdx = 1
    /\ xloaded = <<>>
    /\ swapped = 0

\* the variables of this part when another part is checked
TagIdle ==
    /\ backend = "Mem"
    /\ wver = 1
    /\ rver = 1
    /\ xdoc = <<>>
    /\ xcalls = <<>>
    /\ xstart = <<>>
    /\ xpc = "idle"
    /\ xpos = 0
    /\ xldIdx = 1
    /\ xloaded = <<>>
    /\ swapped = 0

TagNext ==
    \/ \E tag \in TagNames, v \in IntValues : TagSerializeInt(tag, v)
    \/ \E tag \in TagNames, obj \in DevValues : TagSerializeDev(tag, obj)
    \/ FinishTagSave
    \/ \E i \in 1 .. Len(xcalls) - 1 : FinishTagSaveSwapped(i)
    \/ TagLoadInt
    \/ TagLoadDev
    \/ FinishTagLoad

(***************************************************************************)
(* attribute calls of a client on the binary backend, and load routines    *)
(* that do not mirror them.                                                *)
(***************************************************************************)
\* what the loader holds for an attribute it did not load
NotLoaded == NULL

TagAttribute(name, v) ==
    XEmit(XCall("attr", name, v), attributeSave(backend, name, v))

TagLoadAttribute ==
    /\ XMirroring("attr")
    /\ XLoad(attributeLoad(backend, Reader(xpos), xcalls[xldIdx].tag))

\* the load routine has made one more attribute call than the save routine
ExtraLoaded == Len(xloaded) = xldIdx
\* the attribute calls of the save routine that the load routine left out
OmittedCalls ==
    IF ExtraLoaded THEN {}
    ELSE {k \in 1 .. Len(xloaded) :
             xcalls[k].kind = "attr" /\ xloaded[k] = NotLoaded}
\* the load routine has mirrored the save routine so far
Mirrored == ~ExtraLoaded /\ OmittedCalls = {}

\* the load routine leaves out an attribute call that the save routine made
TagOmitAttribute ==
    /\ XMirroring("attr")
    /\ Mirrored
    /\ xldIdx' = xldIdx + 1
    /\ xloaded' = Append(xloaded, NotLoaded)
    /\ UNCHANGED <<backend, wver, rver, xdoc, xcalls, xstart, xpc, xpos, swapped>>
    /\ UNCHANGED <<memVars, idVars, ptrVars, shVars, passVars, dirVars, polyVars,
                 brVars>>

\* the load routine makes an attribute call that the save routine did not make
TagExtraAttribute(name) ==
    /\ xpc = "load"
    /\ Mirrored
    /\ LET r == attributeLoad(backend, Reader(xpos), name)
       IN /\ xpos' = r.pos
          /\ xpc' = IF r.status = "ok" THEN "load" ELSE r.status
          /\ xloaded' = IF r.status = "ok" THEN Append(xloaded, r.ret) ELSE xloaded
    /\ UNCHANGED <<backend, wver, rver, xdoc, xcalls, xstart, xldIdx, swapped>>
    /\ UNCHANGED <<memVars, idVars, ptrVars, shVars, passVars, dirVars, polyVars,
                 brVars>>

\* a pass on the portable backend with sections
SectNext ==
    \/ \E tag \in TagNames, v \in IntValues : TagSerializeInt(tag, v)
    \/ \E tag \in TagNames, obj \in DevValues : TagSerializeDev(tag, obj)
    \/ TagBeginSection
    \/ TagEndSection
    \/ FinishSectionSave
    \/ TagLoadInt
    \/ TagLoadDev
    \/ \E skip \in BOOLEAN : TagSkipSection(skip)
    \/ TagPastEndSection
    \/ FinishTagLoad

AttrNext ==
    \/ \E tag \in TagNames, v \in IntValues : TagSerializeInt(tag, v)
    \/ \E tag \in TagNames, obj \in DevValues : TagSerializeDev(tag, obj)
    \/ \E name \in TagNames, v \in IntValues : TagAttribute(name, v)
    \/ FinishTagSave
    \/ TagLoadInt
    \/ TagLoadDev
    \/ TagLoadAttribute
    \/ TagOmitAttribute
    \/ \E name \in TagNames : TagExtraAttribute(name)
    \/ FinishTagLoad

(***************************************************************************)
(* serializePolymorphic and polymorphic pointers: the registry of          *)
(* subtypes, the discriminator in the stream, the instance after loading.  *)
(***************************************************************************)
\* the concrete subtypes of one polymorphic base type, and their fields
Subtypes == {"DerivedA", "DerivedB"}
BaseType == "Base"
NumFields(T) == CASE T = "DerivedA" -> 1 [] T = "DerivedB" -> 2 [] OTHER -> 0

\* an instance: its concrete type and the values of its fields
Instance(T, f) == [type |-> T, fields |-> f]
PolyValues == {Instance("DerivedA", <<4>>), Instance("DerivedB", <<5, 6>>)}

TypeEntry(T) == [t |-> "type", val |-> T]
FieldEntry(v) == [t |-> "field", val |-> v]

\* the ordinary serialize routine of a concrete type, save direction
saveFields(obj) == [k \in 1 .. Len(obj.fields) |-> FieldEntry(obj.fields[k])]

\* PolymorphicSaverRegistry::save: the discriminator of the concrete type of
\* the value, then the serialize routine of that type
registrySave(obj) == <<TypeEntry(obj.type)>> \o saveFields(obj)

\* a serializePolymorphic that saves the value as its static type
serializePolymorphicSave_static(obj) ==
    <<TypeEntry(BaseType)>> \o saveFields(obj)

\* OutputArchiveBase::serializePolymorphic
serializePolymorphicSave(obj) == registrySave(obj)

\* OutputArchiveBase::serialize of a pointer to a polymorphic object: the
\* Saver of the pointer goes through the same registry
serializePointerSave(obj) == registrySave(obj)

PolyCall(kind, obj) == [kind |-> kind, obj |-> obj]

\* a front-end call of the save pass; the client saves instances of the
\* subtypes its build has registered
PolyEmit(kind, obj, entries) ==
    /\ polyPc = "save"
    /\ Len(polyCalls) < MaxPolyCalls
    /\ obj.type \in saveReg
    /\ polyCalls' = Append(polyCalls, PolyCall(kind, obj))
    /\ polyStart' = Append(polyStart, Len(polyOut) + 1)
    /\ polyOut' = polyOut \o entries
    /\ UNCHANGED <<saveReg, loadReg, polyPc, polyPos, polyIdx, polyLoaded>>
    /\ UNCHANGED <<memVars, idVars, ptrVars, shVars, passVars, dirVars, tagVars,
                 brVars>>

SerializePolymorphic(obj) ==
    PolyEmit("value", obj, serializePolymorphicSave(obj))

SerializePolymorphicPointer(obj) ==
    PolyEmit("pointer", obj, serializePointerSave(obj))

FinishPolySave ==
    /\ polyPc = "save"
    /\ polyPc' = "load"
    /\ UNCHANGED <<saveReg, loadReg, polyCalls, polyOut, polyStart, polyPos,
                   polyIdx, polyLoaded>>
    /\ UNCHANGED <<memVars, idVars, ptrVars, shVars, passVars, dirVars, tagVars,
                 brVars>>

PolyReader(pos) == [pos |-> pos, status |-> "ok", ret |-> Instance("", <<>>)]
HasEntry(r, t) == r.pos < Len(polyOut) /\ polyOut[r.pos + 1].t = t

\* the ordinary serialize routine of concrete type T, load direction
RECURSIVE loadFields(_, _, _)
loadFields(r, T, n) ==
    IF n = 0 \/ r.status # "ok" THEN r
    ELSE IF HasEntry(r, "field")
         THEN loadFields([r EXCEPT !.pos = r.pos + 1,
                                   !.ret = Instance(T, Append(r.ret.fields, polyOut[r.pos + 1].val))],
                         T, n - 1)
         ELSE [r EXCEPT !.status = "misread"]

\* the registry on load: the discriminator is read and looked up; an
\* instance of the registered subtype is set up and loaded by the serialize
\* routine of that subtype; a discriminator that is not registered fails
registryLoad(reg, r) ==
    IF ~HasEntry(r, "type") THEN [r EXCEPT !.status = "misread"]
    ELSE LET T == polyOut[r.pos + 1].val
         IN IF T \in reg
            THEN loadFields([r EXCEPT !.pos = r.pos + 1, !.ret = Instance(T, <<>>)],
                            T, NumFields(T))
            ELSE [r EXCEPT !.pos = r.pos + 1, !.status = "unknown discriminator"]

\* a serializePolymorphic that initializes the value as its static type when
\* the registry does not know the discriminator
serializePolymorphicLoad_asBase(reg, r) ==
    IF registryLoad(reg, r).status = "unknown discriminator"
    THEN [registryLoad(reg, r) EXCEPT !.status = "ok", !.ret = Instance(BaseType, <<>>)]
    ELSE registryLoad(reg, r)

\* InputArchiveBase::serializePolymorphic: PolymorphicInitializerRegistry::init
serializePolymorphicLoad(reg, r) == registryLoad(reg, r)

\* InputArchiveBase::serialize of a pointer to a polymorphic object: the
\* Loader of the pointer constructs the instance through the registry
serializePointerLoad(reg, r) == registryLoad(reg, r)

PolyMirroring(kind) ==
    /\ polyPc = "load"
    /\ polyIdx <= Len(polyCalls)
    /\ polyCalls[polyIdx].kind = kind

PolyLoad(r) ==
    /\ polyPos' = r.pos
    /\ polyPc' = IF r.status = "ok" THEN "load" ELSE r.status
    /\ polyIdx' = IF r.status = "ok" THEN polyIdx + 1 ELSE polyIdx
    /\ polyLoaded' = IF r.status = "ok" THEN Append(polyLoaded, r.ret) ELSE polyLoaded
    /\ UNCHANGED <<saveReg, loadReg, polyCalls, polyOut, polyStart>>
    /\ UNCHANGED <<memVars, idVars, ptrVars, shVars, passVars, dirVars, tagVars,
                 brVars>>

LoadPolymorphic ==
    /\ PolyMirroring("value")
    /\ PolyLoad(serializePolymorphicLoad(loadReg, PolyReader(polyPos)))

LoadPolymorphicPointer ==
    /\ PolyMirroring("pointer")
    /\ PolyLoad(serializePointerLoad(loadReg, PolyReader(polyPos)))

FinishPolyLoad ==
    /\ polyPc = "load"
    /\ polyIdx > Len(polyCalls)
    /\ polyPc' = "done"
    /\ UNCHANGED <<saveReg, loadReg, polyCalls, polyOut, polyStart, polyPos,
                   polyIdx, polyLoaded>>
    /\ UNCHANGED <<memVars, idVars, ptrVars, shVars, passVars, dirVars, tagVars,
                 brVars>>

\* each build has registered some of the subtypes
PolyInit ==
    /\ saveReg \in SUBSET Subtypes
    /\ loadReg \in SUBSET Subtypes
    /\ polyCalls = <<>>
    /\ polyOut = <<>>
    /\ polyStart = <<>>
    /\ polyPc = "save"
    /\ polyPos = 0
    /\ polyIdx = 1
    /\ polyLoaded = <<>>

\* the variables of this part when another part is checked
PolyIdle ==
    /\ saveReg = {}
    /\ loadReg = {}
    /\ polyCalls = <<>>
    /\ polyOut = <<>>
    /\ polyStart = <<>>
    /\ polyPc = "idle"
    /\ polyPos = 0
    /\ polyIdx = 1
    /\ polyLoaded = <<>>

PolyNext ==
    \/ \E obj \in PolyValues : SerializePolymorphic(obj)
    \/ \E obj \in PolyValues : SerializePolymorphicPointer(obj)
    \/ FinishPolySave
    \/ LoadPolymorphic
    \/ LoadPolymorphicPointer
    \/ FinishPolyLoad

(***************************************************************************)
(* The front-end calls and the tags they open and close: serialize,        *)
(* serializeWithID and serializePointerID of OutputArchiveBase and of      *)
(* InputArchiveBase, called by a client and, recursively, by the serialize *)
(* routines of class types.                                                *)
(***************************************************************************)
Ev(ev, tag) == [ev |-> ev, tag |-> tag]

\* what is serialized: a primitive, or a class type whose serialize routine
\* makes one front-end call per member
Member(call, tag, shape) == [call |-> call, tag |-> tag, shape |-> shape]
Leaf == [members |-> <<>>]
Inner ==
    [members |-> <<Member("serialize", "a", Leaf),
                   Member("serializePointerID", "p", Leaf)>>]
Outer ==
    [members |-> <<Member("serializeWithID", "in", Inner),
                   Member("serialize", "z", Leaf)>>]
Shapes == {Leaf, Inner, Outer}
FrontEndCalls == {"serialize", "serializeWithID", "serializePointerID"}

\* a doSerialize that leaves the tag open
doSerializeTags_open(tag, body) == <<Ev("beginTag", tag)>> \o body

\* InputArchiveBase::doSerialize: beginTag, the Loader, endTag
doSerializeTags(tag, body) ==
    <<Ev("beginTag", tag)>> \o body \o <<Ev("endTag", tag)>>

\* serializeWithID: OutputArchiveBase brackets the Saver itself,
\* InputArchiveBase hands the call to doSerialize
serializeWithIDTags(dir, tag, body) ==
    IF dir = "save"
    THEN <<Ev("beginTag", tag)>> \o body \o <<Ev("endTag", tag)>>
    ELSE doSerializeTags(tag, body)

\* serialize of OutputArchiveBase and of InputArchiveBase: beginTag, the
\* Saver or Loader, endTag
serializeTags(dir, tag, body) ==
    <<Ev("beginTag", tag)>> \o body \o <<Ev("endTag", tag)>>

\* serializePointerID of both: beginTag, the IDSaver or IDLoader, endTag
serializePointerIDTags(dir, tag, body) ==
    <<Ev("beginTag", tag)>> \o body \o <<Ev("endTag", tag)>>

\* the events of one front-end call; the Saver or Loader of a primitive
\* touches the stream, that of a class type runs its serialize routine, which
\* makes the front-end calls of the members in order
RECURSIVE frontEnd(_, _, _, _)
RECURSIVE memberEvents(_, _)
memberEvents(dir, members) ==
    IF members = <<>> THEN <<>>
    ELSE frontEnd(dir, Head(members).call, Head(members).tag, Head(members).shape)
            \o memberEvents(dir, Tail(members))
frontEnd(dir, call, tag, shape) ==
    LET body == IF shape.members = <<>> THEN <<Ev("content", tag)>>
                ELSE memberEvents(dir, shape.members)
    IN IF call = "serialize" THEN serializeTags(dir, tag, body)
       ELSE IF call = "serializeWithID" THEN serializeWithIDTags(dir, tag, body)
       ELSE serializePointerIDTags(dir, tag, body)

\* the client makes one front-end call on the archive
FrontEndCall(call, tag, shape) ==
    /\ logDir \in {"save", "load"}
    /\ Len(logCalls) < MaxBracketCalls
    /\ call = "serializePointerID" => shape = Leaf
    /\ tagLog' = tagLog \o frontEnd(logDir, call, tag, shape)
    /\ logCalls' = Append(logCalls, [call |-> call, tag |-> tag,
                                     start |-> Len(tagLog) + 1])
    /\ UNCHANGED logDir
    /\ UNCHANGED <<memVars, idVars, ptrVars, shVars, passVars, dirVars, tagVars, polyVars>>

BrInit ==
    /\ logDir \in {"save", "load"}
    /\ tagLog = <<>>
    /\ logCalls = <<>>

\* the variables of this part when another part is checked
BrIdle ==
    /\ logDir = "idle"
    /\ tagLog = <<>>
    /\ logCalls = <<>>

BrNext ==
    \E call \in FrontEndCalls, tag \in TagNames, shape \in Shapes :
       FrontEndCall(call, tag, shape)

(***************************************************************************)
(* InputArchiveBase2: shared-ownership resolution of a load pass.          *)
(***************************************************************************)
\* the shared_ptr wrappers a client passes to resetSharedPtr, by address
Wrappers == {1, 2, 3}

\* a wrapper: the object it refers to and the owner group (reference count)
\* it belongs to; group 0 is no group
Wrapper(r, g) == [ptr |-> r, group |-> g]
Empty == Wrapper(NULL, 0)

\* shared_ptr::use_count of an owner group: the live wrappers in it
use_count(g) == Cardinality({w \in Wrappers : alive[w] /\ sp[w].group = g})

Shared(w, m, n) == [sp |-> w, sharedPtrMap |-> m, nextGroup |-> n]
NowShared == Shared(sp, sharedPtrMap, nextGroup)

\* what a read through the address of a wrapper gives: the wrapper when it is
\* alive; when its lifetime has ended the read is undefined: the stale
\* content, or whatever else the memory holds by then
Deref(sh, live, w) ==
    IF live[w] THEN {sh.sp[w]}
    ELSE {sh.sp[w], Empty} \cup {sh.sp[v] : v \in Wrappers}

\* resetSharedPtr that registers the wrapper it is called with every time
resetSharedPtr_lastWins(sh, live, s, r) ==
    IF r = NULL
    THEN {Shared([sh.sp EXCEPT ![s] = Empty], sh.sharedPtrMap, sh.nextGroup)}
    ELSE {Shared([sh.sp EXCEPT ![s] = Wrapper(r, sh.nextGroup)],
                 (r :> s) @@ sh.sharedPtrMap, sh.nextGroup + 1)}

\* resetSharedPtr without the test for the null handle
resetSharedPtr_nullEntry(sh, live, s, r) ==
    IF r \notin DOMAIN sh.sharedPtrMap
    THEN {Shared([sh.sp EXCEPT ![s] = Wrapper(r, sh.nextGroup)],
                 (r :> s) @@ sh.sharedPtrMap, sh.nextGroup + 1)}
    ELSE {Shared([sh.sp EXCEPT ![s] = v], sh.sharedPtrMap, sh.nextGroup) :
             v \in Deref(sh, live, sh.sharedPtrMap[r])}

\* InputArchiveBase2::resetSharedPtr: the states it can leave
resetSharedPtr(sh, live, s, r) ==
    IF r = NULL
    THEN {Shared([sh.sp EXCEPT ![s] = Empty], sh.sharedPtrMap, sh.nextGroup)}
    ELSE IF r \notin DOMAIN sh.sharedPtrMap
    THEN {Shared([sh.sp EXCEPT ![s] = Wrapper(r, sh.nextGroup)],
                 (r :> s) @@ sh.sharedPtrMap, sh.nextGroup + 1)}
    ELSE {Shared([sh.sp EXCEPT ![s] = v], sh.sharedPtrMap, sh.nextGroup) :
             v \in Deref(sh, live, sh.sharedPtrMap[r])}

ShCalling == shCalls < MaxSharedCalls

\* a shared-ownership field is loaded: the client passes its wrapper and the
\* object the stream resolved to
ResetSharedPtr(s, r) ==
    /\ ShCalling
    /\ alive[s]
    /\ \E n \in resetSharedPtr(NowShared, alive, s, r) :
          /\ sp' = n.sp
          /\ sharedPtrMap' = n.sharedPtrMap
          /\ nextGroup' = n.nextGroup
    /\ lastReset' = [lastReset EXCEPT ![s] = r]
    /\ shCalls' = shCalls + 1
    /\ UNCHANGED alive
    /\ UNCHANGED <<memVars, idVars, ptrVars, passVars, dirVars, tagVars, polyVars,
                 brVars>>

\* the lifetime of a wrapper ends (a temporary the client loaded into)
DestroyWrapper(s) ==
    /\ ShCalling
    /\ alive[s]
    /\ alive' = [alive EXCEPT ![s] = FALSE]
    /\ shCalls' = shCalls + 1
    /\ UNCHANGED <<sp, sharedPtrMap, nextGroup, lastReset>>
    /\ UNCHANGED <<memVars, idVars, ptrVars, passVars, dirVars, tagVars, polyVars,
                 brVars>>

\* a new, empty wrapper is constructed at the address of a destroyed one
CreateWrapper(s) ==
    /\ ShCalling
    /\ ~alive[s]
    /\ alive' = [alive EXCEPT ![s] = TRUE]
    /\ sp' = [sp EXCEPT ![s] = Empty]
    /\ lastReset' = [lastReset EXCEPT ![s] = NULL]
    /\ shCalls' = shCalls + 1
    /\ UNCHANGED <<sharedPtrMap, nextGroup>>
    /\ UNCHANGED <<memVars, idVars, ptrVars, passVars, dirVars, tagVars, polyVars,
                 brVars>>

ShInit ==
    /\ sp = [w \in Wrappers |-> Empty]
    /\ alive = [w \in Wrappers |-> TRUE]
    /\ sharedPtrMap = <<>>
    /\ nextGroup = 1
    /\ lastReset = [w \in Wrappers |-> NULL]
    /\ shCalls = 0

ShNext ==
    \/ \E s \in Wrappers, r \in Handles \cup {NULL} : ResetSharedPtr(s, r)
    \/ \E s \in Wrappers : DestroyWrapper(s)
    \/ \E s \in Wrappers : CreateWrapper(s)

\* the binary backend at rest
MemIdle ==
    /\ endian = "little"
    /\ buffer = <<>>
    /\ openSections = <<>>
    /\ calls = <<>>
    /\ startPos = <<>>
    /\ mpc = "idle"
    /\ inPos = 0
    /\ loadIdx = 1
    /\ loaded = <<>>
    /\ skipped = {}

MemNext == MemSaveNext \/ MemLoadNext

(***************************************************************************)
(* Properties of the binary backend.                                       *)
(***************************************************************************)
\* the save-side calls that have a mirrored load-side call

\* char values for a pass whose cursor may be misaligned: as the high byte of
\* an unsigned read they keep the value below 2^31
SmallCharValues == {100}

\* a save pass, and a load pass that mirrors it but may leave out one
\* skipSection call
OmitNext ==
    \/ /\ Len(calls) < MaxOmitCalls
       /\ \/ \E v \in SmallCharValues : SaveChar(v)
          \/ \E v \in UnsignedValues : SaveUnsigned(v)
          \/ \E s \in StringValues : SaveString(s)
          \/ \E d \in BlobValues : SerializeBlob(d)
          \/ BeginSection
          \/ EndSection
    \/ FinishSave
    \/ MemLoadNext
    \/ OmitSkipSection
IsSection(i) == calls[i].op = "begin"
Closed(i) == IsSection(i) /\ MatchingEnd(i) # 0
Sections == {i \in 1 .. Len(calls) : IsSection(i)}
ClosedSections == {i \in Sections : Closed(i)}
OpenBegins == {i \in Sections : ~Closed(i)}

\* the length stored in the placeholder of the section begun by call i
StoredLength(i) == rawValue(read(buffer, startPos[i], SizeofUnsigned))
\* first byte of the content, and first byte after the content
ContentBegin(i) == startPos[i] + SizeofUnsigned
ContentEnd(i) == startPos[MatchingEnd(i)]

\* call k lies inside the section begun by call i
Inside(k, i) == i < k /\ k < MatchingEnd(i)
InsideSkipped(k) == \E i \in skipped : Inside(k, i)

\* what the mirrored loader must have read before it mirrors call k
ExpectedVal(k) ==
    IF calls[k].op = "begin" THEN Call("begin", <<>>) ELSE calls[k]

RECURSIVE ExpectedLoads(_)
ExpectedLoads(k) ==
    IF k = 0 THEN <<>>
    ELSE IF calls[k].op = "end" \/ InsideSkipped(k) THEN ExpectedLoads(k - 1)
    ELSE Append(ExpectedLoads(k - 1), ExpectedVal(k))

\* write position at which call k started (the end of the buffer after the last)
PosAt(k) == IF k <= Len(calls) THEN startPos[k] ELSE Len(buffer)

\* C1: binary round trip.  A load pass that mirrors the save pass call by
\* call, with skipSection(false) at every beginSection, never runs out of
\* data, and when it is done it has read back exactly the saved values in
\* the saved order and its cursor is at the end of the buffer.
C1_RoundTrip ==
    /\ (skipped = {} => mpc # "truncated")
    /\ (mpc = "done" /\ skipped = {}) =>
          /\ loaded = ExpectedLoads(Len(calls))
          /\ inPos = Len(buffer)

C1_Witness ==
    /\ mpc = "done"
    /\ skipped = {}
    /\ inPos = Len(buffer)
    /\ \E i, j, k \in 1 .. Len(calls) :
          /\ calls[i].op = "begin" /\ calls[j].op = "string" /\ Inside(j, i)
          /\ calls[k].op = "char" /\ k > MatchingEnd(i)
    /\ Len(loaded) = 3

\* a step in which the loader's skipSection returned
SkipStep == loaded' = Append(loaded, Call("begin", <<>>))
\* a step in which the load routine left out a skipSection call
OmitStep == loaded' = Append(loaded, Call("omitted", <<>>))
\* the load routine has left out a skipSection call
Omitted == \E i \in 1 .. Len(loaded) : loaded[i].op = "omitted"
\* the cursor stands one length prefix before the bytes of the next call
PrefixBehind(pos, idx) == pos = PosAt(Advance(idx)) - SizeofUnsigned
\* a step that mirrors a call whose size does not depend on the bytes read
FixedSizeStep ==
    /\ loadIdx' = Advance(loadIdx) + 1
    /\ calls[Advance(loadIdx)].op \in {"char", "unsigned", "blob"}

\* C33: skipSection(false) on the binary loader advances the cursor by
\* sizeof(unsigned), onto the first byte of the section's content;
\* skipSection(true) advances it by sizeof(unsigned) plus the length stored at
\* the cursor, past the content.  A load routine that leaves the call out is
\* misaligned: the cursor stands on the length prefix, not on the bytes of
\* the next call, and stays one prefix behind through the fixed-size values
\* that follow.
C33_SkipSectionPrefix ==
    [][/\ SkipStep =>
             /\ skipped' = skipped =>
                   /\ inPos' = inPos + SizeofUnsigned
                   /\ ~Omitted => inPos' = ContentBegin(Advance(loadIdx))
             /\ skipped' # skipped =>
                   /\ inPos' = inPos + SizeofUnsigned
                                + rawValue(read(buffer, inPos, SizeofUnsigned))
                   /\ ~Omitted =>
                         inPos' = ContentBegin(Advance(loadIdx))
                                  + StoredLength(Advance(loadIdx))
       /\ OmitStep =>
             /\ inPos' = ContentBegin(Advance(loadIdx)) - SizeofUnsigned
             /\ inPos' # PosAt(Advance(loadIdx'))
             /\ PrefixBehind(inPos', loadIdx')
       /\ (Omitted /\ PrefixBehind(inPos, loadIdx) /\ FixedSizeStep) =>
             /\ mpc' = "load"
             /\ PrefixBehind(inPos', loadIdx')
       /\ (Omitted /\ PrefixBehind(inPos, loadIdx) /\ mpc' = "done") =>
             inPos' = Len(buffer) - SizeofUnsigned
      ]_vars

\* a pass skipped one section whole, entered another, and left out the call
\* for a third, after which it read a fixed-size value one prefix early
C33_Witness ==
    /\ mpc = "done"
    /\ Omitted
    /\ inPos = Len(buffer) - SizeofUnsigned
    /\ Len(calls) = 4
    /\ calls[1].op = "begin" /\ calls[2].op = "unsigned"
    /\ calls[3].op = "end" /\ calls[4].op = "char"
    /\ Len(loaded) = 3

\* a pass skipped a section that has content
C33_WitnessSkip ==
    /\ mpc = "done"
    /\ ~Omitted
    /\ skipped # {}
    /\ \E i \in skipped : StoredLength(i) > 0
    /\ inPos = Len(buffer)

\* C7: section back-patch.  beginSection writes a placeholder of 0 and
\* records the offset just after it; once the matching endSection has run the
\* placeholder holds the number of bytes appended between the end of the
\* placeholder and the endSection call.
C7_BackPatch ==
    /\ Len(openSections) = Cardinality(OpenBegins)
    /\ \A i \in OpenBegins :
          /\ StoredLength(i) = 0
          /\ openSections[Cardinality({j \in OpenBegins : j <= i})] = ContentBegin(i)
    /\ \A i \in ClosedSections : StoredLength(i) = ContentEnd(i) - ContentBegin(i)

C7_Witness ==
    /\ mpc = "save"
    /\ \E i, j \in ClosedSections :
          /\ StoredLength(i) = 0
          /\ MatchingEnd(i) = i + 1
          /\ StoredLength(j) = SizeofChar

\* C8: sections nest.  endSection closes the most recently opened section
\* that is still open, the length recorded for an outer section covers the
\* length prefix and the content of every section nested in it, and a loader
\* that skips the outer section is past every inner one.
C8_Nesting ==
    /\ \A i \in ClosedSections : calls[MatchingEnd(i)].val = <<ContentBegin(i)>>
    /\ \A i, j \in ClosedSections :
          Inside(j, i) =>
             /\ ContentBegin(i) <= startPos[j]
             /\ ContentBegin(j) + StoredLength(j)
                   <= ContentBegin(i) + StoredLength(i)
    /\ \A i \in skipped : \A j \in ClosedSections :
          Inside(j, i) =>
             /\ inPos >= ContentBegin(j) + StoredLength(j)
             /\ loadIdx > MatchingEnd(j)

C8_Witness ==
    /\ mpc = "done"
    /\ \E i \in skipped : \E j \in ClosedSections :
          /\ Inside(j, i)
          /\ StoredLength(j) > 0
          /\ StoredLength(i) = SizeofUnsigned + StoredLength(j)

\* C9: section-skip equivalence.  Whatever the loader chose at each section,
\* skipSection(true) or skipSection(false) followed by a full decode, its
\* cursor stands where the saver stood at the same call, so every value read
\* outside the skipped sections is the saved value; the load never runs out
\* of data.
C9_SkipEquivalence ==
    /\ mpc # "truncated"
    /\ mpc \in {"load", "done"} =>
          /\ inPos = PosAt(Advance(loadIdx))
          /\ loaded = ExpectedLoads(Advance(loadIdx) - 1)

C9_Witness ==
    /\ mpc = "done"
    /\ \E i \in skipped :
          /\ StoredLength(i) > 0
          /\ \E k \in 1 .. Len(calls) :
                k > MatchingEnd(i) /\ calls[k].op = "unsigned"
    /\ loaded[Len(loaded)] = Call("unsigned", <<258>>)

(***************************************************************************)
(* Properties of the identity tables.                                      *)
(***************************************************************************)
GenCalls == 1 .. Len(genLog)
Objects == Addrs \X Types

\* every ID the tables hold, with the key it is held under
TableEntries ==
    {<<k, idMap[k]>> : k \in DOMAIN idMap}
       \cup {<<<<p>>, polyIdMap[p]>> : p \in DOMAIN polyIdMap}

C4_DenseIds ==
    /\ \A k \in GenCalls : genLog[k].id = k
    /\ lastId = Len(genLog)
    /\ \A e \in TableEntries : e[2] \in 1 .. lastId
    /\ Cardinality(TableEntries) = lastId

C4_Witness ==
    /\ Len(genLog) = 3
    /\ genLog[1].T \in PolyTypes /\ genLog[2].T \in PlainTypes
    /\ genLog[3].T \in PolyTypes
    /\ genLog[3].id = 3

\* C5: identity keys by type class.  A plain type is keyed by address and
\* static type: an outer structure and its first member at one address have
\* two IDs.  A polymorphic type is keyed by address only: an object has one
\* ID whatever base type it is reached through.  getId finds exactly what
\* generateId registered.
C5_KeyDerivation ==
    /\ \A p \in Addrs : \A T, U \in PolyTypes :
          getId(Now, p, T) = getId(Now, p, U)
    /\ \A p \in Addrs : \A T, U \in PlainTypes :
          (T # U /\ getId(Now, p, T) # 0) => getId(Now, p, T) # getId(Now, p, U)
    /\ \A o \in Objects :
          (getId(Now, o[1], o[2]) # 0) <=> ~Unseen(o[1], o[2])
    /\ \A a \in GenCalls : \A o \in Objects :
          (IdentityKey(o[1], o[2]) = IdentityKey(genLog[a].p, genLog[a].T))
             => getId(Now, o[1], o[2]) = genLog[a].id

C5_Witness ==
    /\ Len(genLog) = 3
    /\ \E p \in Addrs :
          /\ getId(Now, p, "Outer") # 0
          /\ getId(Now, p, "Inner") # 0
          /\ getId(Now, p, "Outer") # getId(Now, p, "Inner")
    /\ \E a \in GenCalls :
          /\ genLog[a].T = "Derived"
          /\ getId(Now, genLog[a].p, "Base") = genLog[a].id

\* events of the stream
Events == 1 .. Len(out)
SameObject(e, f) == IdentityKey(e.p, e.T) = IdentityKey(f.p, f.T)

\* C6: ID stability.  An object saved with serializeWithID and then by
\* serializePointerID gets one ID: the first occurrence carries the ID and
\* the content, every later occurrence carries that ID and no content.
C6_IdStability ==
    /\ \A i, j \in Events :
          (out[i].kind = "id" /\ out[j].kind = "id" /\ SameObject(out[i], out[j]))
             => i = j
    /\ \A i \in Events :
          out[i].kind = "id" =>
             /\ i < Len(out)
             /\ out[i + 1].kind = "content"
             /\ SameObject(out[i], out[i + 1])
    /\ \A j \in Events :
          (out[j].kind = "id_ref" /\ out[j].p # NULL) =>
             /\ \E i \in 1 .. j - 1 :
                   /\ out[i].kind = "id"
                   /\ SameObject(out[i], out[j])
                   /\ out[i].id = out[j].id
                   /\ out[i].id # 0
             /\ (j < Len(out) => out[j + 1].kind # "content")
    /\ \A j \in Events : out[j].kind = "content" => j > 1 /\ out[j - 1].kind = "id"
    /\ lastId = Cardinality({i \in Events : out[i].kind = "id"})

C6_Witness ==
    /\ Len(out) = 4
    /\ out[1].kind = "id" /\ out[1].T = "Derived"
    /\ out[3].kind = "id_ref" /\ out[3].T = "Base" /\ out[3].id = out[1].id
    /\ out[4].kind = "id_ref" /\ out[4].T = "Derived" /\ out[4].id = out[1].id
    /\ lastId = 1

\* the addresses the objects have in another run of the program, and the
\* ways the objects of this run can lie there (either order of addresses)
OtherAddrs == {3, 5, 8}
Placements ==
    {f \in [Addrs -> OtherAddrs] : \A a, b \in Addrs : f[a] = f[b] => a = b}

\* the tables of a save pass that registers the first k objects of this pass,
\* in the same order, at the addresses f gives them
RECURSIVE Replay(_, _)
Replay(k, f) ==
    IF k = 0 THEN Tables(<<>>, <<>>, 0)
    ELSE generateId(Replay(k - 1, f), f[genLog[k].p], genLog[k].T).t

GetIdStep == idCalls' # idCalls /\ idRet' # NoRet

C10_PointerTable ==
    /\ \A a \in 1 .. Len(addLog) : getPointer(ptrIdMap, addLog[a].id) = addLog[a].h
    /\ \A id \in Ids :
          (\A a \in 1 .. Len(addLog) : addLog[a].id # id)
             => getPointer(ptrIdMap, id) = NULL
    /\ \A a \in 1 .. Len(addLog) :
          ptrRet.id = addLog[a].id => ptrRet.h = addLog[a].h

C10_Witness ==
    /\ Len(addLog) = 3
    /\ addLog[1] = Ptr(2, 1)
    /\ addLog[3].id = 1
    /\ ptrRet = Ptr(2, 1)

\* the wrappers that were loaded with object r
LoadedWith(r) == {w \in Wrappers : alive[w] /\ lastReset[w] = r}

\* C2: shared-ownership identity.  The wrappers that were loaded with the same
\* object r all refer to r, form one owner group, and the share count of
\* that group is their number.
C2_SharedIdentity ==
    \A r \in Handles : \A w \in LoadedWith(r) :
       /\ sp[w].ptr = r
       /\ \A v \in LoadedWith(r) : sp[v].group = sp[w].group
       /\ use_count(sp[w].group) = Cardinality(LoadedWith(r))

\* C26: after resetSharedPtr(s, r) with r not null has returned, the wrapper
\* s refers to r, whatever happened to the wrapper that first claimed r.
C26_ResetRefers ==
    \A w \in Wrappers :
       (alive[w] /\ lastReset[w] # NULL) => sp[w].ptr = lastReset[w]

\* a step in which resetSharedPtr was called
ResetStep == shCalls' # shCalls /\ alive' = alive

\* C27: the first claimant wins.  A step leaves the shared-ownership table
\* as it is, or adds one entry for a handle that had none: the wrapper the
\* call was made with.  No entry is replaced or removed, and a call that finds
\* its handle in the table adds nothing.
C27_FirstClaimantWins ==
    [][ \/ sharedPtrMap' = sharedPtrMap
        \/ \E s \in Wrappers, r \in Handles :
              /\ r \notin DOMAIN sharedPtrMap
              /\ lastReset'[s] = r
              /\ sharedPtrMap' = (r :> s) @@ sharedPtrMap ]_vars

\* a later call found the handle that another wrapper had claimed
C27_Witness ==
    \E r \in DOMAIN sharedPtrMap : \E w \in Wrappers :
       /\ w # sharedPtrMap[r]
       /\ alive[w]
       /\ lastReset[w] = r

\* C28: resetSharedPtr(s, NULL) empties the wrapper s and leaves the
\* shared-ownership table unchanged; the table never holds the null handle.
C28_NullNotShared ==
    [][ ResetStep =>
          \A s \in Wrappers :
             (alive[s] /\ lastReset' = [lastReset EXCEPT ![s] = NULL]) =>
                /\ sp'[s] = Empty
                /\ sharedPtrMap' = sharedPtrMap
                /\ NULL \notin DOMAIN sharedPtrMap' ]_vars

\* a wrapper that had claimed a handle was then loaded with the null handle
C28_Witness ==
    /\ shCalls = 2
    /\ \E r \in DOMAIN sharedPtrMap :
          /\ lastReset[sharedPtrMap[r]] = NULL
          /\ sp[sharedPtrMap[r]] = Empty

(***************************************************************************)
(* Claims about the bytes the binary backend writes and reads.             *)
(***************************************************************************)
\* the step is the save-side call op (the call is the last one logged)
SaveStep(op) ==
    /\ Len(calls') = Len(calls) + 1
    /\ calls'[Len(calls')].op = op
\* the value of the call logged in the step
SavedVal == calls'[Len(calls')].val
\* the step is the load-side call op, and it did not fail
LoadStep(op) ==
    /\ Len(loaded') = Len(loaded) + 1
    /\ loaded'[Len(loaded')].op = op
\* the bytes an item takes in the buffer
ItemSize(c) ==
    IF c.op = "char" THEN SizeofChar
    ELSE IF c.op = "unsigned" THEN SizeofUnsigned
    ELSE IF c.op = "string" THEN SizeofUnsigned + Len(c.val)
    ELSE Len(c.val)

\* C25: binary blobs are raw.  serialize_blob on the saver appends exactly the
\* len bytes of the data and nothing else; on the loader, given the same len,
\* it moves the cursor by exactly len, yields the saved bytes, and leaves the
\* cursor where the next saved item starts.
C25_RawBlob ==
    [][ /\ SaveStep("blob") => buffer' = buffer \o SavedVal
        /\ LoadStep("blob") =>
              /\ loaded'[Len(loaded')].val = calls[Advance(loadIdx)].val
              /\ inPos' = inPos + Len(calls[Advance(loadIdx)].val)
              /\ inPos' = PosAt(Advance(loadIdx) + 1) ]_vars

\* a non-empty blob was loaded and the item saved after it was loaded too
C25_Witness ==
    /\ mpc = "done"
    /\ \E k \in 1 .. Len(loaded) - 1 :
          /\ loaded[k] = Call("blob", <<9>>)
          /\ loaded[k + 1].op = "unsigned"
          /\ loaded[k + 1].val \in {<<v>> : v \in UnsignedValues}

\* C29: endSection overwrites and does not insert.  The buffer has the same
\* length (so the write position is the same) after endSection as before, and
\* every byte outside the sizeof(unsigned) placeholder in front of the
\* content of the section it closes is the same.
C29_EndSectionOverwrites ==
    [][ SaveStep("end") =>
          /\ Len(buffer') = Len(buffer)
          /\ getPosition(buffer') = getPosition(buffer)
          /\ \A i \in 1 .. Len(buffer) :
                (i <= back(openSections) - SizeofUnsigned
                    \/ i > back(openSections)) => buffer'[i] = buffer[i] ]_vars

\* a section with bytes in front of its placeholder and with content was closed
C29_Witness ==
    /\ mpc = "save"
    /\ \E i \in 1 .. Len(calls) :
          /\ calls[i].op = "end"
          /\ calls[i].val[1] > SizeofUnsigned
          /\ startPos[i] > calls[i].val[1]
          /\ StoredLength(CHOOSE j \in Sections : MatchingEnd(j) = i) > 0

\* C30: the save buffer is append-only apart from back-patching.  A save, a
\* string save and a serialize_blob keep every byte written before and add
\* exactly the size of the item at the end (nothing for a blob of length 0);
\* no step of a save pass makes the write position smaller.
C30_AppendOnly ==
    [][ /\ \A op \in {"char", "unsigned", "string", "blob"} :
              SaveStep(op) =>
                 /\ SubSeq(buffer', 1, Len(buffer)) = buffer
                 /\ Len(buffer') = Len(buffer) + ItemSize(calls'[Len(calls')])
        /\ getPosition(buffer') >= getPosition(buffer) ]_vars

\* a string and a blob of length 0 were saved after other bytes
C30_Witness ==
    /\ mpc = "save"
    /\ \E i, j \in 1 .. Len(calls) :
          /\ calls[i].op = "string"
          /\ startPos[i] > 0
          /\ calls[j] = Call("blob", <<>>)
          /\ startPos[j] > 0
          /\ PosAt(j + 1) = startPos[j]

\* the beginSection and endSection calls among the first n calls
Begins(n) == Cardinality({i \in 1 .. n : calls[i].op = "begin"})
Ends(n) == Cardinality({i \in 1 .. n : calls[i].op = "end"})

\* C31: open-section bookkeeping.  openSections holds one entry per
\* beginSection call that no endSection call has answered; no endSection goes
\* through without an open section (that call fails an assertion), and a
\* save pass does not end normally with a section open (the destructor fails
\* an assertion).
C31_OpenSections ==
    /\ Len(openSections) = Begins(Len(calls)) - Ends(Len(calls))
    /\ \A n \in 0 .. Len(calls) : Ends(n) <= Begins(n)
    /\ mpc \in {"load", "done", "truncated"} => openSections = <<>>
    /\ mpc = "abort" =>
          \/ openSections = <<>> /\ Begins(Len(calls)) = Ends(Len(calls))
          \/ openSections # <<>> /\ Begins(Len(calls)) > Ends(Len(calls))

\* the archive was destroyed with one section closed and one still open
C31_Witness ==
    /\ mpc = "abort"
    /\ Len(openSections) = 1
    /\ Begins(Len(calls)) = 2
    /\ Ends(Len(calls)) = 1

\* C32: the section length never wraps.  Every recorded begin position is at
\* least sizeof(unsigned), the recorded positions increase strictly from
\* bottom to top, the write position is never smaller than a recorded begin
\* position, and every endSection that went through found its begin position
\* between sizeof(unsigned) and the write position.
C32_NoWrap ==
    /\ \A i \in 1 .. Len(openSections) :
          /\ openSections[i] >= SizeofUnsigned
          /\ openSections[i] <= getPosition(buffer)
          /\ i > 1 => openSections[i - 1] < openSections[i]
    /\ \A k \in 1 .. Len(calls) :
          calls[k].op = "end" =>
             /\ calls[k].val[1] >= SizeofUnsigned
             /\ startPos[k] >= calls[k].val[1]

\* two sections are open, the inner one begun right after the outer one, and
\* an empty section was closed before
C32_Witness ==
    /\ mpc = "save"
    /\ Len(openSections) = 2
    /\ openSections[2] = openSections[1] + SizeofUnsigned
    /\ \E k \in 1 .. Len(calls) :
          calls[k].op = "end" /\ startPos[k] = calls[k].val[1]

\* the bytes a save-side call adds to the buffer
WrittenBy(c) ==
    IF c.op = "begin" THEN SizeofUnsigned
    ELSE IF c.op = "end" THEN 0
    ELSE ItemSize(c)
\* the length of the stream the save pass wrote
SavedLength ==
    IF calls = <<>> THEN 0
    ELSE startPos[Len(calls)] + WrittenBy(calls[Len(calls)])
\* the load pass reads a stream that is shorter than the one that was saved
Truncated == mpc # "save" /\ Len(buffer) < SavedLength
\* where the bytes end that the loader can need for the mirrored call k
NeededEnd(k) ==
    IF calls[k].op = "begin" THEN ContentEnd(k)
    ELSE startPos[k] + WrittenBy(calls[k])

LdEvents == 1 .. Len(ldLog)
\* the calls of the given kind among the first n calls of the client
CallsOf(call, n) == {k \in 1 .. Len(pcalls) : k <= n /\ pcalls[k].call = call}
\* the addPointer call for the ID of event g came before it
AddedBefore(g) ==
    \E a \in LdEvents : a < g /\ ldLog[a].op = "add" /\ ldLog[a].id = ldLog[g].id

\* C11: no forward references.  In a load pass that mirrors a save pass in
\* which every reference follows the serializeWithID of its object, every
\* getPointer call for an ID other than 0 comes after the addPointer call for
\* that ID: each mirrored reference to an object looks its ID up, and finds
\* it recorded.
C11_NoForwardReferences ==
    ~tampered =>
       /\ ipc \notin {"failed", "misread"}
       /\ \A g \in LdEvents :
             (ldLog[g].op = "get" /\ ldLog[g].id # 0) => AddedBefore(g)
       /\ \A k \in CallsOf("pointerID", ldIdx - 1) :
             pcalls[k].p # NULL =>
                \E g \in LdEvents :
                   /\ ldLog[g].op = "get" /\ ldLog[g].call = k
                   /\ ldLog[g].id # 0 /\ ldLog[g].h = pcalls[k].p

C11_Witness ==
    /\ ipc = "done" /\ ~tampered
    /\ Len(pcalls) = 3
    /\ pcalls[1].call = "withID" /\ pcalls[2].call = "withID"
    /\ pcalls[3].call = "pointerID" /\ pcalls[3].p = pcalls[1].p
    /\ \E g \in LdEvents : ldLog[g].op = "get" /\ ldLog[g].id = 1

\* an ID that no object of the stream carries: no load pass adds it
Resolvable(id) ==
    \E j \in 1 .. Len(stream) : stream[j].kind = "id" /\ stream[j].id = id
\* the references the loader has read whose ID is not 0 and never resolves
Unresolved ==
    {j \in Refs(stream) : j <= rdPos /\ stream[j].id # 0 /\ ~Resolvable(stream[j].id)}

\* C12: an unresolved pointer-ID is a hard failure.  Once the loader has read
\* a reference with an ID other than 0 that no addPointer call was or will be
\* made for, the pass has failed at that reference: it does not go on, it
\* does not complete, and no object was handed out for the reference.
C12_UnresolvedFails ==
    \A j \in Unresolved :
       /\ ipc = "failed"
       /\ rdPos = j
       /\ ldLog[Len(ldLog)] = [op |-> "get", id |-> stream[j].id, h |-> NULL, call |-> ldIdx]

C12_Witness ==
    /\ ipc = "failed"
    /\ Unresolved # {}
    /\ \E a \in LdEvents : ldLog[a].op = "add"

\* C13: serialize records no identity.  The save side generates IDs and
\* writes ID entries for the serializeWithID calls only, so an object that was
\* written with serialize alone has no ID to refer to; the load side reads one
\* content entry per serialize call, and records objects for the
\* serializeWithID calls only.
C13_SerializeNoIdentity ==
    /\ lastId = Cardinality(CallsOf("withID", Len(pcalls)))
    /\ Cardinality(TableEntries) = lastId
    /\ Cardinality({j \in Events : out[j].kind = "id"}) = lastId
    /\ Len(out) = 2 * Cardinality(CallsOf("withID", Len(pcalls)))
                    + Cardinality(CallsOf("pointerID", Len(pcalls)))
                    + Cardinality(CallsOf("serialize", Len(pcalls)))
    /\ \A o \in PassRefs :
          (\A k \in CallsOf("withID", Len(pcalls)) :
               IdentityKey(pcalls[k].p, pcalls[k].T) # IdentityKey(o[1], o[2]))
             => getId(Now, o[1], o[2]) = 0
    /\ ipc \in {"load", "done"} =>
          /\ rdPos = 2 * Cardinality(CallsOf("withID", ldIdx - 1))
                       + Cardinality(CallsOf("pointerID", ldIdx - 1))
                       + Cardinality(CallsOf("serialize", ldIdx - 1))
          /\ Cardinality(DOMAIN ptrIdMap) = Cardinality(CallsOf("withID", ldIdx - 1))
          /\ \A a \in LdEvents :
                ldLog[a].op = "add" => pcalls[ldLog[a].call].call = "withID"

C13_Witness ==
    /\ ipc = "done" /\ ~tampered
    /\ Len(pcalls) = 3
    /\ pcalls[1].call = "serialize" /\ pcalls[2].call = "withID"
    /\ pcalls[3].call = "serialize" /\ pcalls[3].p = pcalls[2].p /\ pcalls[3].T = pcalls[2].T
    /\ lastId = 1 /\ DOMAIN ptrIdMap = {1} /\ rdPos = 4

\* the IDs of the first n entries of a log, in order
IdsOf(log, n) == [k \in 1 .. n |-> log[k].id]

C14_ArgsIgnored ==
    [][\A o \in PassObjects, a \in ArgSeqs :
          pcalls' = Append(pcalls, PassCall("withID", o[1], o[2], a)) =>
             /\ Tables(idMap', polyIdMap', lastId') = serializeWithID(Now, o[1], o[2]).t
             /\ out' = out \o serializeWithID(Now, o[1], o[2]).events
             /\ genLog' = genLog \o serializeWithID(Now, o[1], o[2]).gen]_vars

C14_Witness ==
    /\ Len(pcalls) = 3
    /\ Len(pcalls[1].args) = 1 /\ Len(pcalls[2].args) = 2 /\ Len(pcalls[3].args) = 3
    /\ lastId = 3 /\ Len(out) = 6

\* C15: section operations are bound to the direction.  A skipSection call on
\* an output archive and a beginSection or endSection call on an input
\* archive fail an assertion, and leave the stream, the open sections and
\* the cursor as they were.
C15_DirectionBound ==
    [][misuse' # misuse =>
          /\ mpc' = "abort"
          /\ UNCHANGED <<buffer, openSections, inPos, loaded>>]_vars

C15_Witness ==
    /\ misuse = "beginSection"
    /\ mpc = "abort"
    /\ 0 < inPos /\ inPos < Len(buffer)
    /\ loaded # <<>>

(***************************************************************************)
(* Claims about tags and versions on the two backends.                     *)
(***************************************************************************)
\* the calls of the given kind among the first n calls of the client
XCallsOf(kind, n) == {k \in 1 .. Len(xcalls) : k <= n /\ xcalls[k].kind = kind}
\* the number of values of the first n calls: one per int, one per field
ValuesOf(n, build) ==
    Cardinality(XCallsOf("int", n))
       + Cardinality(XCallsOf("Dev", n)) * Len(DevFields(build, build))

\* C16: the binary backend is unversioned.  needVersion is false on the Mem
\* archives and true on the Xml archives.  A binary stream holds the values
\* of the fields and nothing else, and its load pass reads those and hands
\* the current version to the serialize routine; in a portable stream every
\* element of a versioned type carries the version of the type.
C16_BinaryUnversioned ==
    /\ ~needVersion("Mem")
    /\ needVersion("Xml")
    /\ backend = "Mem" =>
          /\ \A j \in 1 .. Len(xdoc) : xdoc[j].t = "raw"
          /\ Len(xdoc) = ValuesOf(Len(xcalls), wver)
          /\ (xpc \in {"load", "done"} /\ swapped = 0 /\ wver = rver) =>
                /\ xpos = ValuesOf(xldIdx - 1, rver)
                /\ \A k \in XCallsOf("Dev", Len(xloaded)) : xloaded[k].version = rver
    /\ (backend = "Xml" /\ swapped = 0) =>
          \A k \in XCallsOf("Dev", Len(xcalls)) :
             /\ Block(k)[1] = Tok("begin", xcalls[k].tag, <<>>)
             /\ Block(k)[2] = Tok("attr", "version", toString(wver))
             /\ k <= Len(xloaded) => xloaded[k].version = wver

C16_Witness ==
    /\ backend = "Mem" /\ wver = 2 /\ rver = 2
    /\ xpc = "done"
    /\ XCallsOf("Dev", Len(xcalls)) # {}
    /\ Len(xdoc) = 4

\* C17: portable-backend tag mismatch is a hard failure.  When the stream
\* holds the elements of two neighbouring calls with different tag names in
\* each other's place, the load pass fails at the first of the two: beginTag
\* finds another name at the cursor and the pass ends there, although an
\* element with the requested name follows.
C17_TagMismatchFails ==
    (backend = "Xml" /\ swapped # 0 /\ xcalls[swapped].tag # xcalls[swapped + 1].tag) =>
       /\ xpc # "done"
       /\ xldIdx <= swapped
       /\ xpos <= xstart[swapped] - 1
       /\ xpc # "load" =>
             /\ xpc = "mismatch"
             /\ xldIdx = swapped
             /\ xpos = xstart[swapped] - 1

C17_Witness ==
    /\ backend = "Xml" /\ swapped = 2
    /\ xpc = "mismatch"
    /\ Len(xloaded) = 1
    /\ \E j \in 1 .. Len(xdoc) :
          j > xpos + 1 /\ xdoc[j].t = "begin" /\ xdoc[j].name = xcalls[2].tag

\* C20: version tolerance on the portable backend.  A stream written when
\* the type had version 1 and loaded when it has version 2, with field b
\* added in version 2, loads: the serialize routine is handed version 1,
\* field b gets its default, the other fields get the stored values.
C20_VersionTolerance ==
    (backend = "Xml" /\ wver < rver /\ swapped = 0) =>
       /\ xpc \in {"save", "load", "done"}
       /\ Len(xloaded) = xldIdx - 1
       /\ \A k \in XCallsOf("Dev", Len(xloaded)) :
             xloaded[k] = DevLoaded(wver, xcalls[k].val.a, DefaultB)
       /\ \A k \in XCallsOf("int", Len(xloaded)) : xloaded[k] = xcalls[k].val

C20_Witness ==
    /\ backend = "Xml" /\ wver = 1 /\ rver = 2 /\ swapped = 0
    /\ xpc = "done"
    /\ Len(xcalls) = 3
    /\ xcalls[1].kind = "Dev" /\ xcalls[2].kind = "int" /\ xcalls[3].kind = "Dev"

\* a step in which a section call of the save pass returned
XSaveSectionStep ==
    /\ Len(xcalls') = Len(xcalls) + 1
    /\ xcalls'[Len(xcalls')].kind \in {"begin", "end"}
\* a step in which skipSection of the load pass returned
XSkipSectionStep ==
    /\ xpc = "load"
    /\ xldIdx <= Len(xcalls)
    /\ xcalls[xldIdx].kind = "begin"
    /\ xldIdx' # xldIdx
\* the element the archive stands in: the elements opened and not closed
\* before the position
RECURSIVE OpenElements(_, _)
OpenElements(doc, n) ==
    IF n = 0 THEN <<>>
    ELSE IF doc[n].t = "begin" THEN Append(OpenElements(doc, n - 1), doc[n].name)
    ELSE IF doc[n].t = "end" /\ OpenElements(doc, n - 1) # <<>>
    THEN SubSeq(OpenElements(doc, n - 1), 1, Len(OpenElements(doc, n - 1)) - 1)
    ELSE OpenElements(doc, n - 1)

\* C34: on the portable backend the section operations are no-ops.
\* beginSection and endSection of the save pass leave the document and its
\* current element as they were; skipSection(skip) of the load pass, for
\* either value of skip, leaves the document, the current element and the
\* read position as they were.
C34_XmlSectionNoOps ==
    [][/\ (backend = "Xml" /\ XSaveSectionStep) =>
             /\ xdoc' = xdoc
             /\ OpenElements(xdoc', Len(xdoc')) = OpenElements(xdoc, Len(xdoc))
       /\ (backend = "Xml" /\ XSkipSectionStep) =>
             /\ xdoc' = xdoc
             /\ xpos' = xpos
             /\ OpenElements(xdoc', xpos') = OpenElements(xdoc, xpos)
      ]_vars

\* a pass on the portable backend saved a section with content, and its load
\* pass called skipSection(true) with the content of the section still ahead
\* of the cursor
C34_Witness ==
    /\ backend = "Xml"
    /\ Len(xcalls) = 3
    /\ xcalls[1].kind = "begin" /\ xcalls[2].kind = "int" /\ xcalls[3].kind = "end"
    /\ xdoc # <<>>
    /\ xloaded = <<>>
    /\ xpos = 0
    /\ xldIdx = 4

\* a pass on the portable backend entered a section and read its content
C34_WitnessEntered ==
    /\ backend = "Xml"
    /\ xpc = "done"
    /\ Len(xcalls) = 3
    /\ xcalls[1].kind = "begin" /\ xcalls[2].kind = "int" /\ xcalls[3].kind = "end"
    /\ xloaded = <<xcalls[2].val>>
    /\ xpos = Len(xdoc)

\* the tag names another client passes for the same calls
OtherTagNames == TagNames \cup {"renamed"}
\* what call k leaves in the stream when it is made with the given tag
SavedWith(k, tag) ==
    IF xcalls[k].kind = "int"
    THEN serializePrimSave(backend, tag, xcalls[k].val)
    ELSE serializeDevSave(backend, tag, wver, xcalls[k].val)
\* the reader after the load-side mirror of call k made with the given tag
ReadWith(k, tag) ==
    IF xcalls[k].kind = "int"
    THEN serializePrimLoad(backend, Reader(xpos), tag)
    ELSE serializeDevLoad(backend, Reader(xpos), tag, rver)

\* C35: tag names do not influence the binary stream.  On the binary backend
\* every call leaves in the stream what it would leave with any other tag
\* name, so the buffers of two passes that differ in tag names only are the
\* same; the next load-side call reads the same, whatever tag name it passes;
\* and the load pass of the build that saved never fails.
C35_TagsNotInBinary ==
    backend = "Mem" =>
       /\ swapped = 0 =>
             \A k \in 1 .. Len(xcalls) : \A tag \in OtherTagNames :
                Block(k) = SavedWith(k, tag)
       /\ (xpc = "load" /\ xldIdx <= Len(xcalls)) =>
             \A tag \in OtherTagNames :
                ReadWith(xldIdx, tag) = ReadWith(xldIdx, xcalls[xldIdx].tag)
       /\ wver = rver => xpc \in {"save", "load", "done"}

\* a binary pass with calls under different tag names was saved and loaded
C35_Witness ==
    /\ backend = "Mem" /\ swapped = 0 /\ wver = rver
    /\ xpc = "done"
    /\ Len(xcalls) = 3
    /\ xcalls[1].tag # xcalls[2].tag
    /\ xcalls[1].kind = "int" /\ xcalls[2].kind = "int" /\ xcalls[3].kind = "Dev"
    /\ xcalls[1].val = xcalls[2].val
    /\ Block(1) = Block(2)

\* the archive the client routine is handed in this state
ArchiveInUse ==
    IF xpc = "save" THEN OutputArchive(backend) ELSE InputArchive(backend)

\* C22: capability probes.  isLoader is false on the output archive and true
\* on the input archive; all four probes are false on the binary pair and
\* true on the portable pair; so throughout a pass, on save and on load, the
\* archive in use answers every probe as the saver of that backend does, and
\* the routine that branches on needVersion takes the same branch.
C22_ProbesAgree ==
    /\ isLoader(ArchiveInUse) = (xpc # "save")
    /\ ~isLoader(OutputArchive(backend)) /\ isLoader(InputArchive(backend))
    /\ Probes(ArchiveInUse) = Probes(OutputArchive(backend))
    /\ Probes(ArchiveInUse) = Probes(InputArchive(backend))
    /\ \A p \in DOMAIN Probes(ArchiveInUse) :
          Probes(ArchiveInUse)[p] = (backend = "Xml")
    /\ Probes(ArchiveInUse).needVersion = needVersion(backend)

\* a portable pass in which a class type was saved and loaded
C22_Witness ==
    /\ backend = "Xml" /\ swapped = 0
    /\ xpc = "done"
    /\ XCallsOf("Dev", Len(xloaded)) # {}
    /\ isLoader(ArchiveInUse)

\* where the entries of call k start (the end of the stream after the last)
XPosAt(k) == IF k <= Len(xcalls) THEN xstart[k] - 1 ELSE Len(xdoc)
\* how far the cursor is from where the next mirrored call was saved
Misalignment ==
    IF ExtraLoaded THEN 1 ELSE IF OmittedCalls # {} THEN 0 - 1 ELSE 0
\* call k was loaded after an attribute call was left out
AfterOmitted(k) == \E j \in OmittedCalls : j < k

\* C23: attribute is positional on the binary backend.  attribute(name, v)
\* puts into the stream what serialize(name, v) puts, and loading it gives v
\* and moves the cursor as serialize does.  After an attribute that was saved
\* but not loaded the cursor is one entry short of every following field and
\* each of them is read from the entry in front of its own; after an attribute
\* that was loaded but not saved the cursor is one entry ahead of every
\* following field.
C23_AttributePositional ==
    /\ \A k \in XCallsOf("attr", Len(xcalls)) :
          Block(k) = serializePrimSave(backend, xcalls[k].tag, xcalls[k].val)
    /\ xpc \in {"load", "done"} => xpos = XPosAt(xldIdx) + Misalignment
    /\ xpc \in {"save", "load", "done", "truncated"}
    /\ xpc = "truncated" => (ExtraLoaded \/ xpos = Len(xdoc))
    /\ ~ExtraLoaded =>
          \A k \in XCallsOf("attr", Len(xloaded)) \cup XCallsOf("int", Len(xloaded)) :
             IF k \in OmittedCalls THEN TRUE
             ELSE IF AfterOmitted(k) THEN xloaded[k] = xdoc[xstart[k] - 1].val
             ELSE xloaded[k] = xcalls[k].val

\* the first attribute was left out and the two fields after it were loaded
\* with values that are not theirs
C23_Witness ==
    /\ xpc = "done"
    /\ OmittedCalls = {1}
    /\ Len(xcalls) = 3
    /\ xcalls[2].kind = "int" /\ xloaded[2] # xcalls[2].val
    /\ xcalls[3].kind = "attr" /\ xloaded[3] # xcalls[3].val
    /\ xpos = Len(xdoc) - 1

(***************************************************************************)
(* Claims about the tags of the front-end calls.                           *)
(***************************************************************************)
\* the tags that are open after the events evs, given those open before;
\* <<"unbalanced">> in front when an endTag does not close the innermost open
\* tag or content comes outside every tag
RECURSIVE OpenTags(_, _)
OpenTags(evs, open) ==
    IF evs = <<>> THEN open
    ELSE IF Head(evs).ev = "beginTag"
    THEN OpenTags(Tail(evs), Append(open, Head(evs).tag))
    ELSE IF open = <<>> \/ open[1] = "unbalanced" THEN <<"unbalanced">>
    ELSE IF Head(evs).ev = "content" THEN OpenTags(Tail(evs), open)
    ELSE IF open[Len(open)] = Head(evs).tag
    THEN OpenTags(Tail(evs), SubSeq(open, 1, Len(open) - 1))
    ELSE <<"unbalanced">>

\* the events of the outermost call k
CallEnd(k) == IF k < Len(logCalls) THEN logCalls[k + 1].start - 1 ELSE Len(tagLog)
CallEvents(k) == SubSeq(tagLog, logCalls[k].start, CallEnd(k))

\* C24: tags are well bracketed.  The events of every outermost front-end
\* call, on save and on load, start with beginTag(tag) and end with
\* endTag(tag) for the tag of the call, everything else lies in between, the
\* events are properly nested, and no tag is open when the call has returned.
C24_WellBracketed ==
    /\ OpenTags(tagLog, <<>>) = <<>>
    /\ \A k \in 1 .. Len(logCalls) :
          /\ Len(CallEvents(k)) >= 3
          /\ Head(CallEvents(k)) = Ev("beginTag", logCalls[k].tag)
          /\ CallEvents(k)[Len(CallEvents(k))] = Ev("endTag", logCalls[k].tag)
          /\ OpenTags(CallEvents(k), <<>>) = <<>>
          /\ \A n \in 1 .. Len(CallEvents(k)) - 1 :
                /\ OpenTags(SubSeq(CallEvents(k), 1, n), <<>>) # <<>>
                /\ OpenTags(SubSeq(CallEvents(k), 1, n), <<>>)[1] = logCalls[k].tag

\* a load pass with a class in a class (three tags open at once) and a
\* pointer, followed by another call
C24_Witness ==
    /\ logDir = "load"
    /\ Len(logCalls) = 2
    /\ logCalls[1].call = "serializeWithID"
    /\ \E n \in 1 .. CallEnd(1) : Len(OpenTags(SubSeq(tagLog, 1, n), <<>>)) = 3
    /\ \E n \in 1 .. CallEnd(1) : tagLog[n] = Ev("beginTag", "p")

(***************************************************************************)
(* Claims about polymorphic values and pointers.                           *)
(***************************************************************************)
\* the discriminator entries the loader has read
ReadTypes == {j \in 1 .. Len(polyOut) : j <= polyPos /\ polyOut[j].t = "type"}

\* C18: an unknown polymorphic discriminator is a hard failure.  Once the
\* loader has read a discriminator that is not registered in its build, the
\* pass has failed at that entry, for a value and for a pointer alike: no
\* field after it was read, and no instance, of the base type or of any
\* other, was produced for the call.
C18_UnknownDiscriminatorFails ==
    \A j \in ReadTypes :
       polyOut[j].val \notin loadReg =>
          /\ polyPc = "unknown discriminator"
          /\ polyPos = j
          /\ j = polyStart[polyIdx]
          /\ Len(polyLoaded) = polyIdx - 1

C18_Witness ==
    /\ polyPc = "unknown discriminator"
    /\ polyIdx = 2
    /\ polyCalls[2].kind = "value"
    /\ Len(polyLoaded) = 1
    /\ loadReg # {}

\* C19: polymorphic fidelity.  The entries of a saved polymorphic value
\* begin with the discriminator of its concrete type, and the fields
\* follow; when the loading build has the subtype registered, the loaded
\* instance has the concrete type and the field values of the saved one.
C19_PolymorphicFidelity ==
    /\ \A k \in 1 .. Len(polyCalls) :
          /\ polyOut[polyStart[k]] = TypeEntry(polyCalls[k].obj.type)
          /\ \A i \in 1 .. Len(polyCalls[k].obj.fields) :
                polyOut[polyStart[k] + i] = FieldEntry(polyCalls[k].obj.fields[i])
    /\ \A k \in 1 .. Len(polyCalls) :
          (polyCalls[k].obj.type \in loadReg /\ k < polyIdx) =>
             /\ k <= Len(polyLoaded)
             /\ polyLoaded[k] = polyCalls[k].obj
    /\ \A k \in 1 .. Len(polyCalls) :
          (polyPc = "load" /\ k = polyIdx /\ polyCalls[k].obj.type \in loadReg) =>
             serializePolymorphicLoad(loadReg, PolyReader(polyPos)).status = "ok"

C19_Witness ==
    /\ polyPc = "done"
    /\ Len(polyLoaded) = 3
    /\ polyLoaded[1].type = "DerivedB" /\ polyLoaded[2].type = "DerivedA"
    /\ polyCalls[1].kind = "value" /\ polyCalls[3].kind = "pointer"

\* the binary backend: a save pass and the load pass that mirrors it
Init == MemInit /\ IdInit /\ PtrInit /\ ShInit /\ PassInit /\ DirInit /\ TagIdle
    /\ BrIdle
    /\ PolyIdle
Next == MemNext
Spec == Init /\ [][Next]_vars

\* the identity tables of a save pass
SpecIdInit == IdInit /\ MemIdle /\ PtrInit /\ ShInit /\ PassInit /\ DirInit /\ TagIdle
    /\ BrIdle
    /\ PolyIdle
SpecId == SpecIdInit /\ [][IdNext]_vars

\* the pointer table of a load pass
SpecPtrInit == PtrInit /\ MemIdle /\ IdInit /\ ShInit /\ PassInit /\ DirInit /\ TagIdle
    /\ BrIdle
    /\ PolyIdle
SpecPtr == SpecPtrInit /\ [][PtrNext]_vars

\* the shared-ownership table of a load pass
SpecSharedInit == ShInit /\ MemIdle /\ IdInit /\ PtrInit /\ PassInit /\ DirInit /\ TagIdle
    /\ BrIdle
    /\ PolyIdle
SpecShared == SpecSharedInit /\ [][ShNext]_vars

\* a save pass with identities and the load pass that mirrors it
SpecPassInit == PassInit /\ IdInit /\ PtrInit /\ MemIdle /\ ShInit /\ DirInit /\ TagIdle
    /\ BrIdle
    /\ PolyIdle
SpecPass == SpecPassInit /\ [][PassNext]_vars

\* the binary backend with section calls of the other direction
SpecDirInit == MemInit /\ DirInit /\ IdInit /\ PtrInit /\ ShInit /\ PassInit /\ TagIdle
    /\ BrIdle
    /\ PolyIdle
SpecDir == SpecDirInit /\ [][DirNext]_vars

\* one client pass on either backend, with tags and versions
SpecTagInit == TagInit /\ MemIdle /\ IdInit /\ PtrInit /\ ShInit /\ PassInit /\ DirInit
    /\ BrIdle
    /\ PolyIdle
SpecTag == SpecTagInit /\ [][TagNext]_vars

\* a pass with polymorphic values and pointers
SpecPolyInit == PolyInit /\ MemIdle /\ IdInit /\ PtrInit /\ ShInit /\ PassInit /\ DirInit
    /\ BrIdle
    /\ TagIdle
SpecPoly == SpecPolyInit /\ [][PolyNext]_vars

\* the binary backend with a load pass over a stream that may be cut short
SpecTrunc == SpecDirInit /\ [][TruncNext]_vars

\* a pass on the binary backend with attribute calls
SpecAttrInit == SpecTagInit /\ backend = "Mem" /\ wver = rver
SpecAttr == SpecAttrInit /\ [][AttrNext]_vars

\* front-end calls on an archive, with the tags they open and close
SpecBracketInit == BrInit /\ MemIdle /\ IdInit /\ PtrInit /\ ShInit /\ PassInit /\ DirInit
    /\ TagIdle /\ PolyIdle
SpecBracket == SpecBracketInit /\ [][BrNext]_vars

\* the binary backend with a load routine that may leave out a skipSection call
SpecOmit == SpecDirInit /\ [][OmitNext]_vars

\* a pass on the portable backend with sections
SpecSectInit == SpecTagInit /\ backend = "Xml"
SpecSect == SpecSectInit /\ [][SectNext]_vars

=============================================================================
